---------------------------- MODULE Spec2Model ----------------------------
(***************************************************************************)
(* A verification model of diamond-types: the MarkerTree (range tree with  *)
(* pinned leaves and a back index), the history DAG's diff, the chunked    *)
(* binary container (decode_oplog.rs) and the list CRDT's integration.     *)
(* Each part has its own specification over its own variables; the other   *)
(* variables are held at their initial values.                             *)
(***************************************************************************)
EXTENDS Integers, Sequences, FiniteSets, TLC

VARIABLES
    mt,        \* MarkerTree: [nodes, count, root, bi, ev, panic]
    mt_n,      \* number of MarkerTree::insert calls made by the driver
    mt_last,   \* the last insert call: [len, before, loc]
    dlog,      \* the OpLog whose history the diff walks
    dres,      \* the last diff: [a, b, only_a, only_b]
    wlog,      \* the OpLog of the peer that writes files
    file,      \* the file in flight: its bytes and how they were made
    peer,      \* the peer that reads: [oplog, res, before, n]
    reps,      \* the replicas, one an agent: [oplog, items, double_deletes]
    net,       \* the remote transactions made so far
    rlast,     \* the last apply_remote_txn call: [at, txn, before, res]
    doc,       \* the OpLog the branches share: [oplog, items, txns]
    brs,       \* the branches over doc, by name: [frontier, content]
    blast,     \* the last Branch call: [op, on], and the number n of the
               \* merge, checkout and clone calls made
    fcall,     \* the last call of a function on its own: [fn, ...arguments]
    fret       \* what that call returned

mt_vars == <<mt, mt_n, mt_last>>
diff_vars == <<dlog, dres>>
codec_vars == <<wlog, file, peer>>
crdt_vars == <<reps, net, rlast>>
branch_vars == <<doc, brs, blast>>
fn_vars == <<fcall, fret>>
vars == <<mt, mt_n, mt_last, dlog, dres, wlog, file, peer, reps, net, rlast,
          doc, brs, blast, fcall, fret>>

(***************************************************************************)
(* Generic helpers                                                         *)
(***************************************************************************)
Min(a, b) == IF a < b THEN a ELSE b
Max(a, b) == IF a > b THEN a ELSE b

\* F applied to v
With(v, F(_)) == F(v)

RECURSIVE SumFn(_, _, _)
\* sum of f[i] for i in lo..hi
SumFn(f, lo, hi) == IF lo > hi THEN 0 ELSE f[lo] + SumFn(f, lo + 1, hi)

(***************************************************************************)
(* PART 1. MarkerTree (src/src/marker_tree/root.rs)                        *)
(*                                                                         *)
(* Nodes live in an arena: mt.nodes is a sequence, a node's id is its      *)
(* index, and a pointer is an id. ParentPtr::Root is the id 0. Arrays keep *)
(* the source's 0-based indices.                                           *)
(***************************************************************************)

\* Bounds of the driver
NumClients == 2
MaxLen == 2
MaxInserts == 2

\* Sizes of a leaf and of an internal node (marker_tree/mod.rs, not part of
\* the files at hand; root.rs needs NUM_ENTRIES/2 >= 2 and an even
\* MAX_CHILDREN).
NUM_ENTRIES == 4
MAX_CHILDREN == 4
CLIENT_INVALID == 0
ROOT_PARENT == 0

InvalidEntry == [client |-> CLIENT_INVALID, seq |-> 0, len |-> 0]
NoChild == [count |-> 0, child |-> 0]

\* Node::new(): an empty leaf
NewLeaf(parent) ==
    [kind |-> "leaf", parent |-> parent, len |-> 0,
     data |-> [i \in 0..(NUM_ENTRIES - 1) |-> InvalidEntry]]

\* NodeInternal::new_with_parent
NewInternal(parent) ==
    [kind |-> "internal", parent |-> parent, len |-> 0,
     data |-> [i \in 0..(MAX_CHILDREN - 1) |-> NoChild]]

\* MarkerTree::new(): count 0, the root an empty leaf whose parent is the tree
MarkerTreeNew ==
    [nodes |-> <<NewLeaf(ROOT_PARENT)>>, count |-> 0, root |-> 1,
     bi |-> <<>>, ev |-> {}, panic |-> FALSE,
     next |-> [c \in 1..NumClients |-> 0]]

\* Entry accessors (entry.rs). Nothing deletes, so len > 0 for a valid entry.
is_invalid(e) == e.client = CLIENT_INVALID
get_seq_len(e) == IF e.len < 0 THEN -e.len ELSE e.len
get_text_len(e) == IF e.len < 0 THEN 0 ELSE e.len
keep_start(e, at) == [e EXCEPT !.len = at]
keep_end(e, at) == [e EXCEPT !.seq = @ + at, !.len = @ - at]

\* The caller's notify callback: the back index maps every location of the
\* run (loc, len) to the leaf passed.
Notify(st, e, leaf) ==
    LET keys == {<<e.client, s>> : s \in e.seq..(e.seq + get_seq_len(e) - 1)}
    IN [st EXCEPT !.bi = [k \in (DOMAIN st.bi) \cup keys |->
                             IF k \in keys THEN leaf ELSE st.bi[k]]]

\* NodeInternal::count_children: the children fill the array from index 0
count_children(n) ==
    IF \A i \in 0..(MAX_CHILDREN - 1) : n.data[i].child # 0 THEN MAX_CHILDREN
    ELSE CHOOSE i \in 0..(MAX_CHILDREN - 1) :
            /\ n.data[i].child = 0
            /\ \A j \in 0..(i - 1) : n.data[j].child # 0

\* NodeInternal::find_child: -1 stands for None
find_child(n, child) ==
    IF \E i \in 0..(MAX_CHILDREN - 1) : n.data[i].child = child
    THEN CHOOSE i \in 0..(MAX_CHILDREN - 1) :
            /\ n.data[i].child = child
            /\ \A j \in 0..(i - 1) : n.data[j].child # child
    ELSE -1

\* NodeInternal::splice_in: shift the children from idx up by one, write at idx
splice_in(n, idx, count, elem) ==
    LET old_len == count_children(n)
    IN [n EXCEPT !.data = [i \in 0..(MAX_CHILDREN - 1) |->
            IF i = idx THEN [count |-> count, child |-> elem]
            ELSE IF i > idx /\ i <= old_len THEN n.data[i - 1]
            ELSE n.data[i]]]

Alloc(st, node) == [st EXCEPT !.nodes = Append(@, node)]
Event(st, e) == [st EXCEPT !.ev = @ \cup {e}]
Panic(st) == [st EXCEPT !.panic = TRUE]

\* insert_after, lines 349 and 399: the node `after` gives up stolen_length
StealCountKept(n, old_idx, stolen_length) == n

StealCount(n, old_idx, stolen_length) ==
    [n EXCEPT !.data[old_idx].count = @ - stolen_length]

\* insert_after, second half of a full internal node: the loop over dest of
\* lines 429-443, moving left.data[src..] and the new entry into right.
RECURSIVE MoveUpperHalf(_, _, _, _, _, _, _, _)
MoveUpperHalf(st, n, right, dest, src, new_idx, new_entry, acc) ==
    IF dest > MAX_CHILDREN \div 2 THEN [st |-> st, stolen |-> acc]
    ELSE IF dest = new_idx THEN
        MoveUpperHalf([st EXCEPT !.nodes[right].data[dest] = new_entry],
                      n, right, dest + 1, src, new_idx, new_entry, acc)
    ELSE IF src > MAX_CHILDREN - 1 THEN [st |-> Panic(st), stolen |-> acc]
    ELSE
        LET ce == st.nodes[n].data[src]
            st1 == [st EXCEPT !.nodes[n].data[src] = NoChild]
        IN IF ce.child # 0 THEN
               MoveUpperHalf(
                   [st1 EXCEPT !.nodes[ce.child].parent = right,
                               !.nodes[right].data[dest] = ce],
                   n, right, dest + 1, src + 1, new_idx, new_entry,
                   acc + ce.count)
           ELSE [st |-> st1, stolen |-> acc]

\* the loop of lines 407-415 without the line that gives a moved child its
\* new parent (412)
RECURSIVE MoveLowerHalfParentKept(_, _, _, _, _)
MoveLowerHalfParentKept(st, n, right, i, acc) ==
    IF i >= MAX_CHILDREN \div 2 THEN [st |-> st, stolen |-> acc]
    ELSE
        LET ce == st.nodes[n].data[i + MAX_CHILDREN \div 2]
            st1 == [st EXCEPT !.nodes[n].data[i + MAX_CHILDREN \div 2] = NoChild]
        IN IF ce.child # 0 THEN
               MoveLowerHalfParentKept(
                   [st1 EXCEPT !.nodes[right].data[i] = ce],
                   n, right, i + 1, acc + ce.count)
           ELSE MoveLowerHalfParentKept(st1, n, right, i + 1, acc)

\* insert_after, first half of a full internal node: the loop over i of lines
\* 407-415, moving left.data[MAX_CHILDREN/2..] into right.
RECURSIVE MoveLowerHalf(_, _, _, _, _)
MoveLowerHalf(st, n, right, i, acc) ==
    IF i >= MAX_CHILDREN \div 2 THEN [st |-> st, stolen |-> acc]
    ELSE
        LET ce == st.nodes[n].data[i + MAX_CHILDREN \div 2]
            st1 == [st EXCEPT !.nodes[n].data[i + MAX_CHILDREN \div 2] = NoChild]
        IN IF ce.child # 0 THEN
               MoveLowerHalf(
                   [st1 EXCEPT !.nodes[ce.child].parent = right,
                               !.nodes[right].data[i] = ce],
                   n, right, i + 1, acc + ce.count)
           ELSE MoveLowerHalf(st1, n, right, i + 1, acc)

\* insert_after (root.rs 330-455): walk up the tree placing inserted_node
\* next to the node `after`, splitting full internal nodes and replacing the
\* root when the walk reaches it.
RECURSIVE insert_after(_, _, _, _, _)
insert_after(st, parent, inserted_node, after, stolen_length) ==
    IF parent # ROOT_PARENT /\ count_children(st.nodes[parent]) < MAX_CHILDREN
    THEN
        LET n == st.nodes[parent]
            old_idx == find_child(n, after)
            new_idx == old_idx + 1
            n1 == StealCount(n, old_idx, stolen_length)
        IN IF old_idx < 0 \/ n.data[old_idx].count < stolen_length
           THEN Panic(st)
           ELSE [st EXCEPT !.nodes[inserted_node].parent = parent,
                           !.nodes[parent] =
                               splice_in(n1, new_idx, stolen_length, inserted_node)]
    ELSE IF parent = ROOT_PARENT THEN
        \* the new root holds the old root and inserted_node
        LET st1 == Alloc(st, NewInternal(ROOT_PARENT))
            new_root == Len(st1.nodes)
            old_root == st.root
            count == st.count
        IN IF count < stolen_length THEN Panic(st)
           ELSE Event([st1 EXCEPT
                    !.root = new_root,
                    !.nodes[old_root].parent = new_root,
                    !.nodes[inserted_node].parent = new_root,
                    !.nodes[new_root].data[0] =
                        [count |-> count - stolen_length, child |-> old_root],
                    !.nodes[new_root].data[1] =
                        [count |-> stolen_length, child |-> inserted_node]],
                  "new_root")
    ELSE
        \* MAX_CHILDREN + 1 items to distribute between two internal nodes
        LET n == parent
            left_sibling == st.nodes[n]
            next_parent == left_sibling.parent
            st1 == Alloc(st, NewInternal(next_parent))
            right_sibling == Len(st1.nodes)
            old_idx == find_child(left_sibling, after)
            H == MAX_CHILDREN \div 2
        IN IF old_idx < 0 \/ left_sibling.data[old_idx].count < stolen_length
           THEN Panic(st)
           ELSE
           LET st2 == [st1 EXCEPT !.nodes[n] =
                          StealCount(left_sibling, old_idx, stolen_length)]
           IN IF old_idx < H THEN
                LET r == MoveLowerHalf(st2, n, right_sibling, 0, 0)
                    st3 == [r.st EXCEPT !.nodes[inserted_node].parent = n]
                    st4 == [st3 EXCEPT !.nodes[n] =
                               splice_in(st3.nodes[n], old_idx + 1, stolen_length,
                                         inserted_node)]
                    new_stolen_length == r.stolen
                IN insert_after(Event(st4, "internal_split"), next_parent,
                                right_sibling, n, new_stolen_length)
              ELSE
                LET new_idx == old_idx - H + 1
                    st3 == [st2 EXCEPT !.nodes[inserted_node].parent = right_sibling]
                    r == MoveUpperHalf(st3, n, right_sibling, 0, H, new_idx,
                             [count |-> stolen_length, child |-> inserted_node],
                             stolen_length)
                IN insert_after(Event(r.st, "internal_split"), next_parent,
                                right_sibling, n, r.stolen)

\* NodeLeaf::split_at (leaf.rs): move the entries from idx on into a new leaf,
\* notify for each of them, and hang the new leaf after this one. Returns the
\* state with the new leaf's id in .ret.
RECURSIVE NotifyAll(_, _, _, _)
NotifyAll(st, leaf, i, n) ==
    IF i >= n THEN st
    ELSE NotifyAll(Notify(st, st.nodes[leaf].data[i], leaf), leaf, i + 1, n)

split_at(st, leaf, idx) ==
    LET old == st.nodes[leaf]
        moved == old.len - idx
        st1 == Alloc(st, [NewLeaf(old.parent) EXCEPT
                   !.len = moved,
                   !.data = [i \in 0..(NUM_ENTRIES - 1) |->
                               IF i < moved THEN old.data[idx + i] ELSE InvalidEntry]])
        new_leaf == Len(st1.nodes)
        stolen_length ==
            SumFn([i \in 0..(NUM_ENTRIES - 1) |->
                      IF i >= idx /\ i < old.len THEN get_text_len(old.data[i]) ELSE 0],
                  0, NUM_ENTRIES - 1)
        st2 == [st1 EXCEPT !.nodes[leaf] =
                   [old EXCEPT !.len = idx,
                               !.data = [i \in 0..(NUM_ENTRIES - 1) |->
                                   IF i >= idx THEN InvalidEntry ELSE old.data[i]]]]
        st3 == NotifyAll(st2, new_leaf, 0, moved)
        st4 == insert_after(Event(st3, "leaf_split"), old.parent, new_leaf, leaf,
                            stolen_length)
    IN [st |-> st4, ret |-> new_leaf]

\* make_space_in_leaf, lines 108-110: the cursor follows its entry into the
\* new leaf
SplitMiddle(r, c) ==
    [st |-> r.st, cursor |-> [c EXCEPT !.node = r.ret, !.idx = @ - NUM_ENTRIES \div 2]]

\* NodeLeaf::update_parent_count (leaf.rs): add amt to the count kept for this
\* subtree in every ancestor, and to the tree's count at the root.
RECURSIVE update_parent_count_from(_, _, _)
update_parent_count_from(st, child, amt) ==
    LET parent == st.nodes[child].parent
    IN IF parent = ROOT_PARENT THEN [st EXCEPT !.count = @ + amt]
       ELSE LET idx == find_child(st.nodes[parent], child)
            IN IF idx < 0 THEN Panic(st)
               ELSE update_parent_count_from(
                        [st EXCEPT !.nodes[parent].data[idx].count = @ + amt],
                        parent, amt)

update_parent_count(st, leaf, amt) == update_parent_count_from(st, leaf, amt)

\* make_space_in_leaf, lines 87-112: a leaf too full for the gap is split,
\* before the cursor's entry or in the middle. Returns [st, cursor].
split_for_space(st, c, space_needed) ==
    IF st.nodes[c.node].len + space_needed > NUM_ENTRIES THEN
        IF c.idx < NUM_ENTRIES \div 2 THEN
            [st |-> split_at(st, c.node, IF c.offset = 0 THEN c.idx ELSE c.idx + 1).st,
             cursor |-> c]
        ELSE SplitMiddle(split_at(st, c.node, NUM_ENTRIES \div 2), c)
    ELSE [st |-> st, cursor |-> c]

\* make_space_in_leaf, lines 114-132, with the end part of a cut entry left
\* whole (no keep_end)
reshuffle_end_whole(sp, space_needed) ==
    LET c2 == sp.cursor
        node == sp.st.nodes[sp.cursor.node]
        num_copied == node.len - c2.idx
        copied == [i \in 0..(NUM_ENTRIES - 1) |->
                      IF num_copied > 0 /\ i >= c2.idx + space_needed
                         /\ i < c2.idx + space_needed + num_copied
                      THEN node.data[i - space_needed] ELSE node.data[i]]
    IN IF num_copied < 0 \/ c2.idx + space_needed + Max(num_copied, 0) > NUM_ENTRIES
          \/ (c2.offset > 0 /\ num_copied <= 0)
       THEN [st |-> Panic(sp.st), cursor |-> c2]
       ELSE IF c2.offset > 0
       THEN [st |-> Event([sp.st EXCEPT
                             !.nodes[c2.node].len = @ + space_needed,
                             !.nodes[c2.node].data =
                                 [copied EXCEPT ![c2.idx] = keep_start(@, c2.offset)]],
                          "entry_split"),
             cursor |-> [c2 EXCEPT !.idx = @ + 1, !.offset = 0]]
       ELSE [st |-> [sp.st EXCEPT !.nodes[c2.node].len = @ + space_needed,
                                  !.nodes[c2.node].data = copied],
             cursor |-> c2]

\* make_space_in_leaf, lines 114-132: move the entries from the cursor on up
\* by space_needed and, inside an entry, cut the entry in two around the gap
reshuffle(sp, space_needed) ==
    LET st1 == sp.st
        c2 == sp.cursor
        node == sp.st.nodes[sp.cursor.node]
        src_idx == sp.cursor.idx
        dest_idx == sp.cursor.idx + space_needed
        num_copied == sp.st.nodes[sp.cursor.node].len - sp.cursor.idx
        copied == [i \in 0..(NUM_ENTRIES - 1) |->
                      IF num_copied > 0 /\ i >= dest_idx /\ i < dest_idx + num_copied
                      THEN node.data[i - space_needed] ELSE node.data[i]]
    IN IF num_copied < 0 \/ dest_idx + Max(num_copied, 0) > NUM_ENTRIES
          \/ (c2.offset > 0 /\ num_copied <= 0)
       THEN [st |-> Panic(st1), cursor |-> c2]
       ELSE IF c2.offset > 0
       THEN [st |-> Event([st1 EXCEPT
                             !.nodes[c2.node].len = @ + space_needed,
                             !.nodes[c2.node].data =
                                 [copied EXCEPT ![src_idx] = keep_start(@, c2.offset),
                                                ![dest_idx] = keep_end(@, c2.offset)]],
                          "entry_split"),
             cursor |-> [c2 EXCEPT !.idx = @ + 1, !.offset = 0]]
       ELSE [st |-> [st1 EXCEPT !.nodes[c2.node].len = @ + space_needed,
                                !.nodes[c2.node].data = copied],
             cursor |-> c2]

\* make_space_in_leaf, lines 67-85, with the leaf's len left as it was when
\* there is room at the end
make_space_at_len_kept(st0, c1, gap, space_needed) ==
    IF space_needed = 0 THEN [st |-> st0, cursor |-> c1]
    ELSE IF c1.idx = st0.nodes[c1.node].len
            /\ st0.nodes[c1.node].len + space_needed <= NUM_ENTRIES THEN
        [st |-> st0, cursor |-> c1]
    ELSE reshuffle(split_for_space(st0, c1, space_needed), space_needed)

\* make_space_in_leaf, lines 67-85, for the cursor past an entry's end
make_space_at(st0, c1, gap, space_needed) ==
    IF space_needed = 0 THEN [st |-> st0, cursor |-> c1]
    ELSE IF c1.idx = st0.nodes[c1.node].len
            /\ st0.nodes[c1.node].len + space_needed <= NUM_ENTRIES THEN
        \* room at the end of the leaf
        [st |-> [st0 EXCEPT !.nodes[c1.node].len = @ + gap], cursor |-> c1]
    ELSE reshuffle(split_for_space(st0, c1, space_needed), space_needed)

\* make_space_in_leaf, lines 54-65: a cursor at the end of an entry moves to
\* the start of the next
skip_entry_end(st0, cursor0) ==
    IF cursor0.offset = get_seq_len(st0.nodes[cursor0.node].data[cursor0.idx])
    THEN [cursor0 EXCEPT !.offset = 0, !.idx = @ + 1]
    ELSE cursor0

\* MarkerTree::make_space_in_leaf (root.rs 49-133). Returns [st, cursor].
make_space_in_leaf(st0, cursor0, gap) ==
    IF cursor0.idx >= NUM_ENTRIES THEN [st |-> Panic(st0), cursor |-> cursor0]
    ELSE With(skip_entry_end(st0, cursor0),
              LAMBDA c1 : make_space_at(st0, c1, gap,
                                        IF c1.offset > 0 THEN gap + 1 ELSE gap))

\* MarkerTree::insert, lines 164-171: the leaf is brand new
insert_fresh(st, cursor, len, new_entry) ==
    LET st1 == [st EXCEPT !.nodes[cursor.node].data[0] = new_entry,
                          !.nodes[cursor.node].len = 1]
    IN Notify(update_parent_count(Event(st1, "fresh"), cursor.node, len),
              new_entry, cursor.node)

\* MarkerTree::insert, lines 172-178, with the notify call left out
insert_extend_silent(st, cursor, len, new_entry) ==
    LET st1 == [st EXCEPT !.nodes[cursor.node].data[cursor.idx].len = @ + len]
    IN update_parent_count(Event(st1, "extend"), cursor.node, len)

\* MarkerTree::insert, lines 172-178: case 1, extend the entry
insert_extend(st, cursor, len, new_entry) ==
    LET st1 == [st EXCEPT !.nodes[cursor.node].data[cursor.idx].len = @ + len]
    IN Notify(update_parent_count(Event(st1, "extend"), cursor.node, len),
              new_entry, cursor.node)

\* MarkerTree::insert, lines 182-189: write the entry in the space made
insert_in_space(r, len, new_entry) ==
    IF r.st.panic \/ r.cursor.idx >= NUM_ENTRIES \/ r.st.nodes[r.cursor.node].len < 1
    THEN Panic(r.st)
    ELSE Notify(update_parent_count(
                    Event([r.st EXCEPT !.nodes[r.cursor.node].data[r.cursor.idx] =
                                          new_entry], "add"),
                    r.cursor.node, len),
                new_entry, r.cursor.node)

\* MarkerTree::insert, lines 179-189: cases 2 and 3, one more entry
insert_add(st, cursor, len, new_entry) ==
    insert_in_space(make_space_in_leaf(st, cursor, 1), len, new_entry)

\* MarkerTree::insert (root.rs 138-199)
insert(st0, cursor, len, new_loc) ==
    LET st == [st0 EXCEPT !.ev = {}]
        new_entry == [client |-> new_loc.client, seq |-> new_loc.seq, len |-> len]
        node == st.nodes[cursor.node]
        old_len == node.len
    IN IF cursor.idx >= NUM_ENTRIES THEN Panic(st)
       ELSE
       LET old_entry == node.data[cursor.idx]
       IN IF cursor.idx = 0 /\ old_len = 0 THEN
             insert_fresh(st, cursor, len, new_entry)
          ELSE IF /\ old_entry.len > 0
                  /\ old_entry.len = cursor.offset
                  /\ old_entry.client = new_loc.client
                  /\ old_entry.seq + old_entry.len = new_loc.seq THEN
             insert_extend(st, cursor, len, new_entry)
          ELSE
             insert_add(st, cursor, len, new_entry)

\* NodeInternal::get_child (internal.rs): the child holding raw position `pos`
RECURSIVE get_child(_, _, _, _)
get_child(n, i, pos, stick_end) ==
    IF i >= MAX_CHILDREN \/ n.data[i].child = 0 THEN [ok |-> FALSE]
    ELSE IF pos < n.data[i].count \/ (stick_end /\ pos = n.data[i].count)
         THEN [ok |-> TRUE, offset |-> pos, child |-> n.data[i].child]
         ELSE get_child(n, i + 1, pos - n.data[i].count, stick_end)

\* NodeLeaf::find_offset (leaf.rs)
RECURSIVE find_offset(_, _, _, _)
find_offset(n, i, pos, stick_end) ==
    IF i >= n.len THEN
        IF pos = 0 THEN [ok |-> TRUE, idx |-> i, offset |-> 0] ELSE [ok |-> FALSE]
    ELSE LET text_len == get_text_len(n.data[i])
         IN IF pos < text_len \/ (stick_end /\ pos = text_len)
            THEN [ok |-> TRUE, idx |-> i, offset |-> pos]
            ELSE find_offset(n, i + 1, pos - text_len, stick_end)

\* MarkerTree::cursor_at_pos (root.rs 22-43)
RECURSIVE cursor_descend(_, _, _, _)
cursor_descend(st, node, pos, stick_end) ==
    IF st.nodes[node].kind = "internal" THEN
        LET r == get_child(st.nodes[node], 0, pos, stick_end)
        IN IF r.ok THEN cursor_descend(st, r.child, r.offset, stick_end)
           ELSE [ok |-> FALSE]
    ELSE LET r == find_offset(st.nodes[node], 0, pos, stick_end)
         IN IF r.ok THEN [ok |-> TRUE, node |-> node, idx |-> r.idx, offset |-> r.offset]
            ELSE [ok |-> FALSE]

cursor_at_pos(st, raw_pos, stick_end) == cursor_descend(st, st.root, raw_pos, stick_end)

\* NodeLeaf::find (leaf.rs): the entry of the leaf that holds loc
leaf_find(n, loc) ==
    \E i \in 0..(NUM_ENTRIES - 1) :
        /\ i < n.len
        /\ n.data[i].client = loc[1]
        /\ n.data[i].seq <= loc[2]
        /\ loc[2] < n.data[i].seq + get_seq_len(n.data[i])

\* MarkerTree::check_leaf (root.rs 206-232): [ok, count]
check_leaf(st, id, expected_parent) ==
    LET leaf == st.nodes[id]
        valid == {i \in 0..(NUM_ENTRIES - 1) : ~is_invalid(leaf.data[i])}
        count == SumFn([i \in 0..(NUM_ENTRIES - 1) |->
                           IF i \in valid THEN get_text_len(leaf.data[i]) ELSE 0],
                       0, NUM_ENTRIES - 1)
    IN [ok |-> /\ leaf.parent = expected_parent
               /\ \A i \in valid : \A j \in 0..(i - 1) : j \in valid
               /\ (leaf.parent # ROOT_PARENT => count > 0)
               /\ Cardinality(valid) = leaf.len,
        count |-> count]

\* MarkerTree::check_internal (root.rs 235-276): [ok, count]
RECURSIVE check_node(_, _, _)
check_internal(st, id, expected_parent) ==
    LET node == st.nodes[id]
        some == {i \in 0..(MAX_CHILDREN - 1) : node.data[i].child # 0}
        res == [i \in 0..(MAX_CHILDREN - 1) |->
                   IF i \in some THEN check_node(st, node.data[i].child, id)
                   ELSE [ok |-> TRUE, count |-> 0]]
    IN [ok |-> /\ node.parent = expected_parent
               /\ \A i \in some : \A j \in 0..(i - 1) : j \in some
               /\ \A i, j \in some :
                     st.nodes[node.data[i].child].kind = st.nodes[node.data[j].child].kind
               /\ \A i \in some : res[i].ok /\ res[i].count = node.data[i].count,
        count |-> SumFn([i \in 0..(MAX_CHILDREN - 1) |-> res[i].count],
                        0, MAX_CHILDREN - 1)]

check_node(st, id, expected_parent) ==
    IF st.nodes[id].kind = "internal" THEN check_internal(st, id, expected_parent)
    ELSE check_leaf(st, id, expected_parent)

\* MarkerTree::check (root.rs 278-288)
check(st) ==
    LET r == check_node(st, st.root, ROOT_PARENT)
    IN r.ok /\ r.count = st.count

(***************************************************************************)
(* The MarkerTree driver: a caller that inserts runs of fresh locations at *)
(* raw positions, as the tests of the tree do. Each client's sequence      *)
(* numbers are handed out in order (mt.next), so no location is inserted    *)
(* twice.                                                                  *)
(***************************************************************************)
\* insert at a cursor found by cursor_at_pos
InsertAtCursor(st, cursor, client, len) ==
    IF ~cursor.ok THEN Panic(st)
    ELSE [insert(st, [node |-> cursor.node, idx |-> cursor.idx,
                      offset |-> cursor.offset],
                 len, [client |-> client, seq |-> st.next[client]])
          EXCEPT !.next[client] = @ + len]

\* one call of insert at raw position pos
InsertAt(st, pos, client, len) ==
    InsertAtCursor(st, cursor_at_pos(st, pos, TRUE), client, len)

RECURSIVE Replay(_, _, _)
Replay(st, script, i) ==
    IF i > Len(script) THEN st
    ELSE Replay(InsertAt(st, script[i][1], script[i][2], script[i][3]), script, i + 1)

\* Trees the driver starts from: the new tree, and trees built by fixed calls
\* of insert that fill leaves (so that the next calls split leaves, internal
\* nodes and the root).
Scripts ==
    { <<>>,
      << <<0, 1, 2>>, <<1, 2, 2>>, <<2, 1, 2>> >>,
      << <<0, 1, 2>>, <<1, 2, 2>>, <<2, 1, 2>>, <<3, 2, 2>>, <<4, 1, 2>> >> }

MTInsert ==
    /\ mt_n < MaxInserts
    /\ ~mt.panic
    /\ \E pos \in 0..mt.count, client \in 1..NumClients, len \in 1..MaxLen :
          /\ mt' = InsertAt(mt, pos, client, len)
          /\ mt_last' = [len |-> len, before |-> mt.count]
    /\ mt_n' = mt_n + 1
    /\ UNCHANGED <<diff_vars, codec_vars, crdt_vars, branch_vars, fn_vars>>


\* C7: back-index integrity. After any sequence of insert calls, for every
\* inserted location the leaf last passed to notify for it is a leaf that
\* holds the location in one of its entries (lookup_position finds it).
BackIndexIntegrity ==
    /\ ~mt.panic
    /\ \A c \in 1..NumClients : \A s \in 0..(mt.next[c] - 1) :
          /\ <<c, s>> \in DOMAIN mt.bi
          /\ mt.bi[<<c, s>>] \in DOMAIN mt.nodes
          /\ mt.nodes[mt.bi[<<c, s>>]].kind = "leaf"
          /\ leaf_find(mt.nodes[mt.bi[<<c, s>>]], <<c, s>>)

\* C7 witness: the last insert split an entry, a leaf and an internal node,
\* and an earlier one extended an entry; every location is found
BackIndexWitness ==
    /\ {"entry_split", "leaf_split", "internal_split"} \subseteq mt.ev
    /\ \E id \in DOMAIN mt.nodes : \E i \in 0..(NUM_ENTRIES - 1) :
          mt.nodes[id].kind = "leaf" /\ mt.nodes[id].data[i].len > MaxLen
    /\ BackIndexIntegrity

\* C8: aggregate consistency. check() passes: every internal node's count
\* for a child is the sum of the text lengths beneath it and the tree's
\* count is the sum over the root; the last insert of length len raised the
\* tree's count by exactly len.
AggregateConsistency ==
    /\ ~mt.panic
    /\ check(mt)
    /\ mt.count = mt_last.before + mt_last.len

\* C8 witness: an insert of length 2 that split an internal node
AggregateWitness ==
    /\ "internal_split" \in mt.ev
    /\ mt_last.len = 2
    /\ mt.count = mt_last.before + 2


(***************************************************************************)
(* PART 2. The OpLog and its history DAG                                   *)
(*                                                                         *)
(* The OpLog's own file (oplog.rs), the history (history.rs) and the RLE   *)
(* lists are not among the files at hand: their operations are modelled    *)
(* from the data model and the contracts of spec sections 3, 4.1 and 4.2,  *)
(* and from how decode_oplog.rs and op_iter.rs call them.                  *)
(*                                                                         *)
(* An OpLog is a record                                                    *)
(*   client_data    : sequence of [name, item_times], AgentId a at a + 1;  *)
(*                    item_times is the agent's seq -> LV list, sorted by  *)
(*                    seq, of runs [seq, len, time]                        *)
(*   client_with_lv : the LV -> (agent, seq) list of runs                  *)
(*                    [time, agent, seq, len]                              *)
(*   operations     : runs [time, start, end, fwd, tag, cpos]; cpos is     *)
(*                    <<>> (no content) or <<first, last+1>> into the      *)
(*                    content string of the tag                            *)
(*   history        : entries [start, end, parents, child_indices]         *)
(*   frontier       : sorted sequence of LVs, <<ROOT_TIME>> when empty     *)
(*   ins_content, del_content : sequences of bytes (one byte a character)  *)
(***************************************************************************)

\* ROOT_TIME is u64::MAX in the program; here it is the largest integer the
\* checker's arithmetic has. No arithmetic is done on it.
ROOT_TIME == 2147483647

RootFrontier == <<ROOT_TIME>>

\* OpLog::new()
OpLogNew ==
    [client_data |-> <<>>, client_with_lv |-> <<>>, operations |-> <<>>,
     history |-> <<>>, frontier |-> RootFrontier,
     ins_content |-> <<>>, del_content |-> <<>>]

SeqToSet(q) == {q[i] : i \in 1..Len(q)}

RECURSIVE SortedSeq(_)
\* the elements of a finite set of integers in ascending order
SortedSeq(S) ==
    IF S = {} THEN <<>>
    ELSE LET m == CHOOSE x \in S : \A y \in S : x <= y
         IN <<m>> \o SortedSeq(S \ {m})

\* frontier_is_sorted / sort_unstable of a frontier held as a list
SortFrontier(q) ==
    IF \A i \in 1..(Len(q) - 1) : q[i] < q[i + 1] THEN q
    ELSE LET RECURSIVE Ins(_, _)
             Ins(acc, x) ==
                 IF acc = <<>> THEN <<x>>
                 ELSE IF x < acc[1] THEN <<x>> \o acc
                 ELSE <<acc[1]>> \o Ins(Tail(acc), x)
             RECURSIVE Go(_, _)
             Go(acc, i) == IF i > Len(q) THEN acc ELSE Go(Ins(acc, q[i]), i + 1)
         IN Go(<<>>, 1)

\* OpLog::len(): the end of the last agent-assignment run
OpLogLen(o) ==
    IF o.client_with_lv = <<>> THEN 0
    ELSE LET l == o.client_with_lv[Len(o.client_with_lv)] IN l.time + l.len

\* OpLog::get_agent_id: -1 stands for None
get_agent_id(o, name) ==
    IF \E i \in 1..Len(o.client_data) : o.client_data[i].name = name
    THEN (CHOOSE i \in 1..Len(o.client_data) : o.client_data[i].name = name) - 1
    ELSE -1

\* OpLog::get_or_create_agent_id: [oplog, id]
get_or_create_agent_id(o, name) ==
    IF get_agent_id(o, name) >= 0 THEN [oplog |-> o, id |-> get_agent_id(o, name)]
    ELSE [oplog |-> [o EXCEPT !.client_data =
                        Append(@, [name |-> name, item_times |-> <<>>])],
          id |-> Len(o.client_data)]

\* ClientData::try_seq_to_time: -1 stands for None
try_seq_to_time(c, seq) ==
    IF \E i \in 1..Len(c.item_times) :
          c.item_times[i].seq <= seq /\ seq < c.item_times[i].seq + c.item_times[i].len
    THEN LET i == CHOOSE i \in 1..Len(c.item_times) :
                    c.item_times[i].seq <= seq
                    /\ seq < c.item_times[i].seq + c.item_times[i].len
         IN c.item_times[i].time + (seq - c.item_times[i].seq)
    ELSE -1

\* ClientData::get_next_seq
get_next_seq(c) ==
    IF c.item_times = <<>> THEN 0
    ELSE c.item_times[Len(c.item_times)].seq + c.item_times[Len(c.item_times)].len

\* OpLog::time_to_crdt_id: [agent, seq] of an LV below len()
time_to_crdt_id(o, t) ==
    LET i == CHOOSE i \in 1..Len(o.client_with_lv) :
                o.client_with_lv[i].time <= t
                /\ t < o.client_with_lv[i].time + o.client_with_lv[i].len
        r == o.client_with_lv[i]
    IN [agent |-> r.agent, seq |-> r.seq + (t - r.time)]

\* the agent's seq -> LV list with the run e put at its place by seq and
\* merged with a neighbour it continues
InsertItemTime(list, e) ==
    LET before == SelectSeq(list, LAMBDA x : x.seq < e.seq)
        after == SelectSeq(list, LAMBDA x : x.seq >= e.seq)
        joinL == before # <<>>
                 /\ before[Len(before)].seq + before[Len(before)].len = e.seq
                 /\ before[Len(before)].time + before[Len(before)].len = e.time
        mid == IF joinL
               THEN SubSeq(before, 1, Len(before) - 1)
                    \o <<[before[Len(before)] EXCEPT !.len = @ + e.len]>>
               ELSE before \o <<e>>
        m == mid[Len(mid)]
        joinR == after # <<>> /\ m.seq + m.len = after[1].seq
                 /\ m.time + m.len = after[1].time
    IN IF joinR
       THEN SubSeq(mid, 1, Len(mid) - 1) \o <<[m EXCEPT !.len = @ + after[1].len]>>
            \o Tail(after)
       ELSE mid \o after

\* OpLog::assign_next_time_to_crdt_span: LVs start.. are those of the run
\* (agent, seq, len)
assign_next_time_to_crdt_span(o, start, span) ==
    LET run == [time |-> start, agent |-> span.agent, seq |-> span.seq, len |-> span.len]
        cwl == o.client_with_lv
        last == cwl[Len(cwl)]
        cwl2 == IF cwl # <<>> /\ last.time + last.len = start
                   /\ last.agent = span.agent /\ last.seq + last.len = span.seq
                THEN SubSeq(cwl, 1, Len(cwl) - 1) \o <<[last EXCEPT !.len = @ + span.len]>>
                ELSE Append(cwl, run)
    IN [o EXCEPT !.client_with_lv = cwl2,
                 !.client_data[span.agent + 1].item_times =
                     InsertItemTime(@, [seq |-> span.seq, len |-> span.len,
                                        time |-> start])]

\* can_append for two operation runs (internal_op.rs): forward, or for
\* deletes backward (backspace)
OpLenOf(op) == op.end - op.start

CanAppendFwd(a, b) ==
    /\ (OpLenOf(a) = 1 \/ a.fwd) /\ (OpLenOf(b) = 1 \/ b.fwd)
    /\ \/ (a.tag = "Ins" /\ b.start = a.end)
       \/ (a.tag = "Del" /\ b.start = a.start)

CanAppendRev(a, b) ==
    /\ a.tag = "Del"
    /\ (OpLenOf(a) = 1 \/ ~a.fwd) /\ (OpLenOf(b) = 1 \/ ~b.fwd)
    /\ b.end = a.start

CanAppendOp(a, b) ==
    /\ a.tag = b.tag
    /\ a.time + OpLenOf(a) = b.time
    /\ (a.cpos = <<>>) = (b.cpos = <<>>)
    /\ (a.cpos # <<>> => a.cpos[2] = b.cpos[1])
    /\ (CanAppendFwd(a, b) \/ CanAppendRev(a, b))

AppendOp(a, b) ==
    LET cp == IF a.cpos = <<>> THEN <<>> ELSE <<a.cpos[1], b.cpos[2]>>
    IN IF CanAppendFwd(a, b)
       THEN [a EXCEPT !.end = @ + OpLenOf(b), !.fwd = TRUE, !.cpos = cp]
       ELSE [a EXCEPT !.start = b.start, !.fwd = FALSE, !.cpos = cp]

\* Option<&str>: None, or Some(s)
NoContent == [some |-> FALSE, s |-> <<>>]
SomeContent(s) == [some |-> TRUE, s |-> s]

\* OpLog::push_op_internal: the content, when there is one, goes to the end
\* of the content string of the tag and the run to the end of the operation
\* list
push_op_internal(o, next_time, span, tag, content) ==
    LET store == IF tag = "Ins" THEN o.ins_content ELSE o.del_content
        op == [time |-> next_time, start |-> span.start, end |-> span.end,
               fwd |-> span.fwd, tag |-> tag,
               cpos |-> IF content.some
                        THEN <<Len(store), Len(store) + Len(content.s)>> ELSE <<>>]
        ops == o.operations
    IN [o EXCEPT
          !.operations =
              IF ops # <<>> /\ CanAppendOp(ops[Len(ops)], op)
              THEN SubSeq(ops, 1, Len(ops) - 1) \o <<AppendOp(ops[Len(ops)], op)>>
              ELSE Append(ops, op),
          !.ins_content = IF content.some /\ tag = "Ins" THEN @ \o content.s ELSE @,
          !.del_content = IF content.some /\ tag = "Del" THEN @ \o content.s ELSE @]

\* History::find_packed: the index of the entry holding LV t
HistIdx(h, t) == CHOOSE i \in 1..Len(h) : h[i].start <= t /\ t < h[i].end

\* OpLog::insert_history: append the span with its parents; a span that
\* continues the last entry (its only parent is the entry's last LV) extends
\* it; every parent's entry gets the new entry's index as a child
insert_history(o, parents, span) ==
    LET h == o.history
        last == h[Len(h)]
    IN IF h # <<>> /\ Len(parents) = 1 /\ parents[1] = last.end - 1
          /\ last.end = span.start
       THEN [o EXCEPT !.history[Len(h)].end = span.end]
       ELSE
        LET new_idx == Len(h) + 1
            known == {i \in 1..Len(h) :
                         \E k \in 1..Len(parents) :
                             parents[k] # ROOT_TIME
                             /\ h[i].start <= parents[k] /\ parents[k] < h[i].end}
            RECURSIVE Link(_, _)
            Link(hh, i) ==
                IF i > Len(h) THEN hh
                ELSE Link(IF i \in known
                          THEN [hh EXCEPT ![i].child_indices = Append(@, new_idx)]
                          ELSE hh, i + 1)
        IN [o EXCEPT !.history =
               Append(Link(h, 1),
                      [start |-> span.start, end |-> span.end,
                       parents |-> parents, child_indices |-> <<>>])]

\* TimeSpan::last: end - 1 in usize; for the empty span at 0 the
\* subtraction wraps to the largest value, which is ROOT_TIME
SpanLast(span) == IF span.end = 0 THEN ROOT_TIME ELSE span.end - 1

\* OpLog::advance_frontier: the parents leave the frontier, the span's last
\* LV joins it
advance_frontier(o, parents, span) ==
    [o EXCEPT !.frontier =
        IF ((SeqToSet(o.frontier) \ SeqToSet(parents)) \cup {SpanLast(span)})
               = {ROOT_TIME}
        THEN RootFrontier
        ELSE SortedSeq(((SeqToSet(o.frontier) \ SeqToSet(parents))
                        \cup {SpanLast(span)}) \ {ROOT_TIME})]

\* frontier_eq
frontier_eq(a, b) == a = b

(***************************************************************************)
(* Ancestors in a history: the reference the diff is compared with         *)
(***************************************************************************)
\* the parents of LV t: the entry's parents at its start, else t - 1
ParentsOf(h, t) ==
    LET e == h[HistIdx(h, t)]
    IN IF t = e.start THEN SeqToSet(e.parents) \ {ROOT_TIME} ELSE {t - 1}

RECURSIVE AncestorsFrom(_, _, _)
AncestorsFrom(h, todo, seen) ==
    IF todo = {} THEN seen
    ELSE LET t == CHOOSE x \in todo : TRUE
         IN AncestorsFrom(h, (todo \cup (ParentsOf(h, t) \ seen)) \ {t},
                          seen \cup {t})

\* every LV that is in the frontier f or precedes one that is
Ancestors(h, f) == AncestorsFrom(h, SeqToSet(f) \ {ROOT_TIME}, {})


(***************************************************************************)
(* History::diff (spec section 4.1): a walk over the history entries from  *)
(* both frontiers, highest LV first, through a priority queue of           *)
(* (LV, flag) pairs; it stops when only shared entries are queued.         *)
(* Flags are ordered OnlyA < OnlyB < Shared.                               *)
(***************************************************************************)
OnlyA == "OnlyA"
OnlyB == "OnlyB"
Shared == "Shared"

FlagRank(f) == IF f = OnlyA THEN 0 ELSE IF f = OnlyB THEN 1 ELSE 2

\* BinaryHeap::push on a queue held greatest first
QueuePush(q, item) ==
    LET Greater(x) == x.ord > item.ord
                      \/ (x.ord = item.ord /\ FlagRank(x.flag) >= FlagRank(item.flag))
    IN SelectSeq(q, Greater) \o <<item>> \o SelectSeq(q, LAMBDA x : ~Greater(x))

\* push_reversed_rle: spans arrive highest first; one that ends where the
\* last one starts extends it downwards
push_reversed_rle(list, span) ==
    IF list # <<>> /\ list[Len(list)].start = span.end
    THEN [list EXCEPT ![Len(list)].start = span.start]
    ELSE Append(list, span)

\* mark_run: LVs ord_start..ord_end (inclusive) carry the flag
mark_run(d, ord_start, ord_end, flag) ==
    LET span == [start |-> ord_start, end |-> ord_end + 1]
    IN IF flag = OnlyA THEN [d EXCEPT !.only_a = push_reversed_rle(@, span)]
       ELSE IF flag = OnlyB THEN [d EXCEPT !.only_b = push_reversed_rle(@, span)]
       ELSE d

\* the queue's head met at the same LV keeps the plain flag
MeetKeepsFlag(flag, peek_flag) == flag

\* two queue items at one LV: differing flags make the LV shared
MeetFlag(flag, peek_flag) == IF peek_flag # flag THEN Shared ELSE flag

RECURSIVE DiffSameOrd(_)
\* pop every queued item with the LV of the one in hand
DiffSameOrd(d) ==
    IF d.q = <<>> \/ d.q[1].ord # d.ord THEN d
    ELSE DiffSameOrd([d EXCEPT !.flag = MeetFlag(d.flag, d.q[1].flag),
                               !.ns = IF d.q[1].flag = Shared THEN @ - 1 ELSE @,
                               !.q = Tail(@)])

RECURSIVE DiffSameTxn(_, _)
\* queued items inside the same entry: mark down to each of them
DiffSameTxn(d, txn_start) ==
    IF d.q = <<>> \/ d.q[1].ord < txn_start THEN d
    ELSE LET peek == d.q[1]
             d1 == IF peek.flag # d.flag
                   THEN [mark_run(d, peek.ord + 1, d.ord, d.flag)
                            EXCEPT !.ord = peek.ord, !.flag = Shared]
                   ELSE d
         IN DiffSameTxn([d1 EXCEPT !.ns = IF peek.flag = Shared THEN @ - 1 ELSE @,
                                   !.q = Tail(@)], txn_start)

RECURSIVE DiffPushParents(_, _, _)
DiffPushParents(d, parents, i) ==
    IF i > Len(parents) THEN d
    ELSE IF parents[i] = ROOT_TIME THEN DiffPushParents(d, parents, i + 1)
    ELSE DiffPushParents(
            [d EXCEPT !.q = QueuePush(@, [ord |-> parents[i], flag |-> d.flag]),
                      !.ns = IF d.flag = Shared THEN @ + 1 ELSE @],
            parents, i + 1)

RECURSIVE diff_slow_internal(_, _)
diff_slow_internal(h, d) ==
    IF d.q = <<>> THEN d
    ELSE
      LET d0 == [d EXCEPT !.ord = d.q[1].ord, !.flag = d.q[1].flag,
                          !.ns = IF d.q[1].flag = Shared THEN @ - 1 ELSE @,
                          !.q = Tail(@)]
          d1 == DiffSameOrd(d0)
          txn == h[HistIdx(h, d1.ord)]
          d2 == DiffSameTxn(d1, txn.start)
          d3 == mark_run(d2, txn.start, d2.ord, d2.flag)
          d4 == DiffPushParents(d3, txn.parents, 1)
      IN IF Len(d4.q) = d4.ns THEN d4 ELSE diff_slow_internal(h, d4)

RECURSIVE DiffSeed(_, _, _, _)
DiffSeed(q, f, flag, i) ==
    IF i > Len(f) THEN q
    ELSE DiffSeed(IF f[i] = ROOT_TIME THEN q
                  ELSE QueuePush(q, [ord |-> f[i], flag |-> flag]), f, flag, i + 1)

\* History::diff(a, b): [only_a, only_b], span lists highest first
diff(h, a, b) ==
    LET q == DiffSeed(DiffSeed(<<>>, a, OnlyA, 1), b, OnlyB, 1)
        d == diff_slow_internal(h, [q |-> q, ns |-> 0, ord |-> 0, flag |-> OnlyA,
                                    only_a |-> <<>>, only_b |-> <<>>])
    IN [only_a |-> d.only_a, only_b |-> d.only_b]

\* the LVs of a span list
SpansSet(list) ==
    UNION {list[i].start .. (list[i].end - 1) : i \in 1..Len(list)}

\* the spans of a list are non-empty and no two of them share an LV
SpansDisjoint(list) ==
    /\ \A i \in 1..Len(list) : list[i].start < list[i].end
    /\ \A i, j \in 1..Len(list) :
          i # j => (list[i].start .. (list[i].end - 1))
                   \cap (list[j].start .. (list[j].end - 1)) = {}


(***************************************************************************)
(* Driver of the diff: operations with chosen parents are appended to an   *)
(* OpLog (as a peer's operations are when they are merged), and diff is    *)
(* called on two frontiers of the result.                                  *)
(***************************************************************************)
\* Bounds of the driver
MaxTime == 4
MaxSpanLen == 2
MaxParents == 2

\* no element of S precedes another
IsAntichain(h, S) ==
    \A x \in S : \A y \in S : x # y => x \notin Ancestors(h, <<y>>)

\* the frontiers of an OpLog: the root, and the antichains of its LVs
Frontiers(o) ==
    {RootFrontier} \cup
    {SortedSeq(S) : S \in {T \in SUBSET (0..(OpLogLen(o) - 1)) :
                              /\ T # {} /\ Cardinality(T) <= MaxParents
                              /\ IsAntichain(o.history, T)}}

\* one run of operations by an agent with the given parents, appended at
\* the next LVs
PushOpAt(o, name, seq, parents, tag, span, content) ==
    LET r == get_or_create_agent_id(o, name)
        t == OpLogLen(o)
        len == span.end - span.start
        o1 == assign_next_time_to_crdt_span(r.oplog, t,
                  [agent |-> r.id, seq |-> seq, len |-> len])
        o2 == push_op_internal(o1, t, span, tag, content)
        o3 == insert_history(o2, parents, [start |-> t, end |-> t + len])
    IN advance_frontier(o3, parents, [start |-> t, end |-> t + len])

\* no diff has been called: the driver calls diff once on a history and the
\* call's result stays in dres
DiffNone == [a |-> RootFrontier, b |-> RootFrontier, only_a |-> <<>>, only_b |-> <<>>]

DiffIdle == dres = DiffNone

DiffPush ==
    /\ DiffIdle
    /\ \E parents \in Frontiers(dlog), len \in 1..MaxSpanLen :
          /\ OpLogLen(dlog) + len <= MaxTime
          /\ dlog' = PushOpAt(dlog, "a",
                        IF dlog.client_data = <<>> THEN 0
                        ELSE get_next_seq(dlog.client_data[1]),
                        parents, "Ins", [start |-> 0, end |-> len, fwd |-> TRUE],
                        NoContent)
    /\ UNCHANGED <<dres, mt_vars, codec_vars, crdt_vars, branch_vars, fn_vars>>

DiffCall ==
    /\ DiffIdle
    /\ \E a \in Frontiers(dlog), b \in Frontiers(dlog) :
          dres' = [a |-> a, b |-> b] @@ diff(dlog.history, a, b)
    /\ UNCHANGED <<dlog, mt_vars, codec_vars, crdt_vars, branch_vars, fn_vars>>

\* C5 (Diff correctness): for any two frontiers A and B of a history,
\* diff(A, B) returns span lists only_a and only_b whose LVs are exactly
\* ancestors(A) \ ancestors(B) and ancestors(B) \ ancestors(A); the two
\* lists share no LV, no list holds an LV twice, and every other ancestor
\* of A or B is an ancestor of both.
DiffCorrect ==
    LET h == dlog.history
        A == Ancestors(h, dres.a)
        B == Ancestors(h, dres.b)
    IN /\ SpansSet(dres.only_a) = A \ B
       /\ SpansSet(dres.only_b) = B \ A
       /\ SpansDisjoint(dres.only_a) /\ SpansDisjoint(dres.only_b)
       /\ SpansSet(dres.only_a) \cap SpansSet(dres.only_b) = {}
       /\ (A \cup B) \ (SpansSet(dres.only_a) \cup SpansSet(dres.only_b)) = A \cap B

\* a diff of two frontiers with two elements each, where both sides have
\* LVs of their own and share ancestors, one of them inside an entry that
\* also holds an LV of one side only
DiffWitness ==
    LET h == dlog.history
        A == Ancestors(h, dres.a)
        B == Ancestors(h, dres.b)
    IN /\ Len(dres.a) = 2 /\ Len(dres.b) = 2
       /\ dres.only_a # <<>> /\ dres.only_b # <<>>
       /\ A \cap B # {}
       /\ \E i \in 1..Len(h) :
             /\ (h[i].start .. (h[i].end - 1)) \cap (A \cap B) # {}
             /\ (h[i].start .. (h[i].end - 1)) \cap (A \ B) # {}
       /\ DiffCorrect

(***************************************************************************)
(* PART 3. The binary container (list/encoding/decode_oplog.rs)            *)
(*                                                                         *)
(* A file is a sequence of bytes. A read returns [err, val, buf]: err is   *)
(* "none" with the value read and the bytes left, or the ParseError, or    *)
(* "panic" when the program aborts. The varint functions (varint.rs), the  *)
(* chunk codes and the checksum (encoding/mod.rs) are not among the files  *)
(* at hand and follow spec section 6.                                      *)
(***************************************************************************)
ReadOk(v, buf) == [err |-> "none", val |-> v, buf |-> buf]
ReadErr(e) == [err |-> e, val |-> 0, buf |-> <<>>]

\* what an error other than UnexpectedChunk carries of chunk types
NoDetail == [expected |-> 0, actual |-> 0]

\* the ? operator: go on with the value read and the rest of the buffer
Then(r, K(_, _)) == IF r.err # "none" THEN r ELSE K(r.val, r.buf)

\* BufReader::consume
consume(buf, num) == SubSeq(buf, num + 1, Len(buf))

\* Values of 2^28 and more are all read as VarintCap: no length of the model
\* comes near it.
VarintCap == 268435456
VarintBase == 128

RECURSIVE encode_usize(_)
\* varint.rs encode_usize: unsigned LEB128, low 7 bits first
encode_usize(n) ==
    IF n < VarintBase THEN <<n>>
    ELSE <<(n % VarintBase) + VarintBase>> \o encode_usize(n \div VarintBase)

RECURSIVE decode_at(_, _)
\* varint.rs decode_usize from index i: [ok, val, count]; running off the end
\* of the buffer is not ok
decode_at(buf, i) ==
    IF i > Len(buf) THEN [ok |-> FALSE, val |-> 0, count |-> 0]
    ELSE IF buf[i] < VarintBase THEN [ok |-> TRUE, val |-> buf[i], count |-> 1]
    ELSE With(decode_at(buf, i + 1), LAMBDA r :
            IF ~r.ok THEN r
            ELSE [ok |-> TRUE,
                  val |-> IF r.val >= VarintCap \div VarintBase THEN VarintCap
                          ELSE (buf[i] - VarintBase) + VarintBase * r.val,
                  count |-> r.count + 1])

decode_usize(buf) == decode_at(buf, 1)

\* zigzag: 0, -1, 1, -2, 2, ... as 0, 1, 2, 3, 4, ...
num_encode_zigzag_isize(i) == IF i >= 0 THEN 2 * i ELSE -2 * i - 1
num_decode_zigzag_isize(n) == IF n % 2 = 0 THEN n \div 2 ELSE -((n + 1) \div 2)

\* mix_bit / strip_bit: a flag in the lowest bit
mix_bit(n, bit) == 2 * n + (IF bit THEN 1 ELSE 0)
strip_bit_usize(n) == [val |-> n \div 2, bit |-> n % 2 = 1]

\* BufReader::next_usize (112-117), next_u32 (90-95): a varint that runs off
\* the end of the buffer aborts the read
next_usize(buf) ==
    IF buf = <<>> THEN ReadErr("UnexpectedEOF")
    ELSE With(decode_usize(buf), LAMBDA d :
            IF ~d.ok THEN ReadErr("panic") ELSE ReadOk(d.val, consume(buf, d.count)))

next_u32(buf) == next_usize(buf)

\* BufReader::next_zigzag_isize (119-122)
next_zigzag_isize(buf) ==
    Then(next_usize(buf), LAMBDA n, b : ReadOk(num_decode_zigzag_isize(n), b))

\* BufReader::next_n_bytes (124-130)
next_n_bytes(buf, num_bytes) ==
    IF num_bytes > Len(buf) THEN ReadErr("UnexpectedEOF")
    ELSE ReadOk(SubSeq(buf, 1, num_bytes), consume(buf, num_bytes))

\* BufReader::next_u32_le (97-102): the slice self.0[0..4] of a shorter
\* buffer is out of range, which aborts
U32LeLen == 4

next_u32_le(buf) ==
    IF Len(buf) < U32LeLen THEN ReadErr("panic")
    ELSE ReadOk(SubSeq(buf, 1, U32LeLen), consume(buf, U32LeLen))

\* Chunk: the type codes (spec section 6)
Chunk ==
    [FileInfo |-> 1, UserData |-> 2, AgentNames |-> 3,
     StartBranch |-> 10, Frontier |-> 11,
     Patches |-> 20, InsertedContent |-> 21, DeletedContent |-> 22,
     AgentAssignment |-> 23, PositionalPatches |-> 24, TimeDAG |-> 25,
     CRC |-> 100]

\* Chunk::try_from succeeds on these
KnownChunks == {Chunk[k] : k \in DOMAIN Chunk}

\* next_chunk with every chunk type accepted
next_chunk_any(buf) ==
    Then(next_u32(buf), LAMBDA chunk_type, b1 :
    Then(next_usize(b1), LAMBDA len, b2 :
        IF len > Len(b2) THEN ReadErr("InvalidLength")
        ELSE Then(next_n_bytes(b2, len), LAMBDA body, b3 :
                ReadOk([type |-> chunk_type, body |-> body], b3))))

\* BufReader::next_chunk (141-152): val is [type, body]
next_chunk(buf) ==
    Then(next_u32(buf), LAMBDA chunk_type, b1 :
        IF chunk_type \notin KnownChunks THEN ReadErr("InvalidChunkHeader")
        ELSE Then(next_usize(b1), LAMBDA len, b2 :
                IF len > Len(b2) THEN ReadErr("InvalidLength")
                ELSE Then(next_n_bytes(b2, len), LAMBDA body, b3 :
                        ReadOk([type |-> chunk_type, body |-> body], b3))))

\* BufReader::peek_u32 (84-88): -1 stands for None
peek_u32(buf) ==
    IF buf = <<>> THEN ReadOk(-1, buf)
    ELSE With(decode_usize(buf), LAMBDA d :
            IF ~d.ok THEN ReadErr("panic") ELSE ReadOk(d.val, buf))

\* BufReader::read_chunk (156-167): val is [some, body]; a chunk of another
\* type, or the end of the buffer, is None and nothing is consumed
read_chunk(buf, expect_chunk_type) ==
    Then(peek_u32(buf), LAMBDA actual_chunk_type, b0 :
        IF actual_chunk_type = -1 \/ actual_chunk_type # expect_chunk_type
        THEN ReadOk([some |-> FALSE, body |-> <<>>], buf)
        ELSE Then(next_chunk(buf), LAMBDA c, b1 :
                ReadOk([some |-> TRUE, body |-> c.body], b1)))

\* BufReader::expect_chunk (169-181): val is the chunk's body
expect_chunk(buf, expect_chunk_type) ==
    Then(next_chunk(buf), LAMBDA c, b1 :
        IF c.type # expect_chunk_type
        THEN [ReadErr("UnexpectedChunk") EXCEPT
                !.val = [expected |-> expect_chunk_type, actual |-> c.type]]
        ELSE ReadOk(c.body, b1))

\* the bytes a character starting with byte b takes (UTF-8), 0 for a byte
\* that starts none
Utf8Size(b) ==
    IF b < 128 THEN 1
    ELSE IF b >= 194 /\ b <= 223 THEN 2
    ELSE IF b >= 224 /\ b <= 239 THEN 3
    ELSE IF b >= 240 /\ b <= 244 THEN 4
    ELSE 0

RECURSIVE Utf8ValidFrom(_, _)
Utf8ValidFrom(bytes, i) ==
    IF i > Len(bytes) THEN TRUE
    ELSE /\ Utf8Size(bytes[i]) > 0
         /\ i + Utf8Size(bytes[i]) - 1 <= Len(bytes)
         /\ \A k \in (i + 1)..(i + Utf8Size(bytes[i]) - 1) :
               bytes[k] >= 128 /\ bytes[k] <= 191
         /\ Utf8ValidFrom(bytes, i + Utf8Size(bytes[i]))

\* std::str::from_utf8 succeeds
Utf8Valid(bytes) == Utf8ValidFrom(bytes, 1)

\* BufReader::next_str (184-192)
next_str(buf) ==
    IF buf = <<>> THEN ReadErr("UnexpectedEOF")
    ELSE Then(next_usize(buf), LAMBDA len, b1 :
            IF len > Len(b1) THEN ReadErr("InvalidLength")
            ELSE Then(next_n_bytes(b1, len), LAMBDA bytes, b2 :
                    IF Utf8Valid(bytes) THEN ReadOk(bytes, b2)
                    ELSE ReadErr("InvalidUTF8")))

RECURSIVE CharsToBytes(_, _, _)
\* str_pos_to_bytes: the byte offset of character char_pos, the length of
\* the string when it has fewer characters
CharsToBytes(bytes, char_pos, at) ==
    IF char_pos = 0 \/ at >= Len(bytes) THEN Min(at, Len(bytes))
    ELSE CharsToBytes(bytes, char_pos - 1, at + Utf8Size(bytes[at + 1]))

\* unicount::consume_chars: [here, rest]
consume_chars(content, len) ==
    With(CharsToBytes(content, len, 0), LAMBDA n :
        [here |-> SubSeq(content, 1, n), rest |-> consume(content, n)])

(***************************************************************************)
(* checksum (encoding/mod.rs): CRC-32, reflected, polynomial EDB88320. A   *)
(* 32-bit word is held as its four bytes, lowest first, which is also the  *)
(* order of the CRC chunk's value.                                         *)
(***************************************************************************)
\* exclusive or of two 4-bit numbers
Xor4Table ==
    [a \in 0..15 |-> [b \in 0..15 |->
        (((a % 2) + (b % 2)) % 2)
        + 2 * ((((a \div 2) % 2) + ((b \div 2) % 2)) % 2)
        + 4 * ((((a \div 4) % 2) + ((b \div 4) % 2)) % 2)
        + 8 * ((((a \div 8) % 2) + ((b \div 8) % 2)) % 2)]]

\* exclusive or of two bytes
Xor8(a, b) == 16 * Xor4Table[a \div 16][b \div 16] + Xor4Table[a % 16][b % 16]

XorWord(x, y) == <<Xor8(x[1], y[1]), Xor8(x[2], y[2]), Xor8(x[3], y[3]), Xor8(x[4], y[4])>>

\* the word shifted right by one bit
ShrWord(x) ==
    <<(x[1] \div 2) + 128 * (x[2] % 2), (x[2] \div 2) + 128 * (x[3] % 2),
      (x[3] \div 2) + 128 * (x[4] % 2), x[4] \div 2>>

CrcPoly == <<32, 131, 184, 237>>
CrcOnes == <<255, 255, 255, 255>>

RECURSIVE CrcBits(_, _)
CrcBits(x, k) ==
    IF k = 0 THEN x
    ELSE CrcBits(IF x[1] % 2 = 1 THEN XorWord(ShrWord(x), CrcPoly) ELSE ShrWord(x),
                 k - 1)

CrcTable == [n \in 0..255 |-> CrcBits(<<n, 0, 0, 0>>, 8)]

RECURSIVE CrcRange(_, _, _, _)
\* the register after the bytes data[lo..hi], by halves; the register is
\* four bytes, lowest first
CrcRange(crc, data, lo, hi) ==
    IF lo > hi \/ Len(crc) # U32LeLen THEN crc
    ELSE IF lo = hi
    THEN XorWord(CrcTable[Xor8(crc[1], data[lo])], <<crc[2], crc[3], crc[4], 0>>)
    ELSE CrcRange(CrcRange(crc, data, lo, (lo + hi) \div 2), data,
                  (lo + hi) \div 2 + 1, hi)

\* checksum(data): the CRC-32 of the bytes, lowest byte first
checksum(data) == XorWord(CrcRange(CrcOnes, data, 1, Len(data)), CrcOnes)

(***************************************************************************)
(* OpLog::merge_data (decode_oplog.rs 382-574). The state of the call is a *)
(* record m: err ("none" while it runs), the OpLog being changed, the      *)
(* top-level reader, the file's agent map (file index -> [id, cursor]),    *)
(* the Patches chunk's reader, the content strings still to hand out, and  *)
(* the lengths counted. release tells a release build (unchecked           *)
(* arithmetic wraps) from a debug build (it aborts).                       *)
(***************************************************************************)
\* MAGIC_BYTES and PROTOCOL_VERSION (encoding/mod.rs, spec section 6): "DT"
MAGIC_BYTES == <<68, 84>>
PROTOCOL_VERSION == 1
\* read_magic checks and consumes 8 bytes
MagicLen == 8

MergeStart(self, data, release) ==
    [err |-> "none", oplog |-> self, reader |-> data, map |-> <<>>,
     patch |-> <<>>, ins |-> NoContent, del |-> NoContent,
     first |-> 0, assign_len |-> -1, patches_len |-> -1, history_len |-> -1,
     release |-> release, detail |-> NoDetail]

Fail(m, e) == [m EXCEPT !.err = e]

\* a step of merge_data runs unless an earlier one returned
Step(m, F(_)) == IF m.err # "none" THEN m ELSE F(m)

\* the ? operator inside merge_data
Read(m, r, K(_, _)) ==
    IF r.err = "none" THEN K(r.val, r.buf)
    ELSE IF r.err = "UnexpectedChunk" THEN [Fail(m, r.err) EXCEPT !.detail = r.val]
    ELSE Fail(m, r.err)

\* read_magic that looks at the length alone
ReadMagicAny(m0) ==
    Step(m0, LAMBDA m :
        IF Len(m.reader) < MagicLen THEN Fail(m, "UnexpectedEOF")
        ELSE [m EXCEPT !.reader = consume(@, MagicLen)])

\* BufReader::read_magic (75-82)
read_magic(m0) ==
    Step(m0, LAMBDA m :
        IF Len(m.reader) < MagicLen THEN Fail(m, "UnexpectedEOF")
        ELSE IF SubSeq(m.reader, 1, Len(MAGIC_BYTES)) # MAGIC_BYTES
        THEN Fail(m, "InvalidMagic")
        ELSE [m EXCEPT !.reader = consume(@, MagicLen)])

\* merge_data 386-389
ReadVersion(m0) ==
    Step(m0, LAMBDA m :
        Read(m, next_usize(m.reader), LAMBDA protocol_version, b :
            IF protocol_version # PROTOCOL_VERSION
            THEN Fail(m, "UnsupportedProtocolVersion")
            ELSE [m EXCEPT !.reader = b]))

RECURSIVE ReadAgentNames(_, _)
\* merge_data 403-408: every name of the file gets an agent id of self
ReadAgentNames(m, chunk) ==
    IF chunk = <<>> THEN m
    ELSE Read(m, next_str(chunk), LAMBDA name, rest :
            With(get_or_create_agent_id(m.oplog, name), LAMBDA r :
                ReadAgentNames([m EXCEPT !.oplog = r.oplog,
                                         !.map = Append(@, [id |-> r.id, cursor |-> 0])],
                               rest)))

\* merge_data 391-411
ReadFileInfo(m0) ==
    Step(m0, LAMBDA m :
        Read(m, expect_chunk(m.reader, Chunk.FileInfo), LAMBDA fileinfo, b :
        Read(m, read_chunk(fileinfo, Chunk.UserData), LAMBDA userdata, f1 :
        Read(m, expect_chunk(f1, Chunk.AgentNames), LAMBDA agent_names_chunk, f2 :
            ReadAgentNames([m EXCEPT !.reader = b], agent_names_chunk)))))

\* OpLog::crdt_id_to_time: -1 where the program unwraps None
crdt_id_to_time(o, agent, seq) == try_seq_to_time(o.client_data[agent + 1], seq)

RECURSIVE read_frontier(_, _, _, _)
\* BufReader::read_frontier (249-270): an agent index outside the map and an
\* id the OpLog does not hold abort
read_frontier(buf, oplog, agent_map, result) ==
    Then(next_usize(buf), LAMBDA n, b1 :
        IF strip_bit_usize(n).val >= Len(agent_map) THEN ReadErr("panic")
        ELSE Then(next_usize(b1), LAMBDA seq, b2 :
            With(crdt_id_to_time(oplog, agent_map[strip_bit_usize(n).val + 1].id, seq),
                 LAMBDA time :
                IF time < 0 THEN ReadErr("panic")
                ELSE IF strip_bit_usize(n).bit
                THEN read_frontier(b2, oplog, agent_map, Append(result, time))
                ELSE ReadOk(SortFrontier(Append(result, time)), b2))))

\* merge_data 424-429: data that does not start at self's frontier
OverlapCheck(m, frontier) ==
    IF ~frontier_eq(frontier, m.oplog.frontier) THEN Fail(m, "panic") ELSE m

\* merge_data 413-430
ReadStartBranch(m0) ==
    Step(m0, LAMBDA m :
        Read(m, read_chunk(m.reader, Chunk.StartBranch), LAMBDA start_branch, b :
            IF ~start_branch.some THEN m
            ELSE Read(m, expect_chunk(start_branch.body, Chunk.Frontier),
                      LAMBDA start_frontier_chunk, b1 :
                 Read(m, read_frontier(start_frontier_chunk, m.oplog, m.map, <<>>),
                      LAMBDA frontier, b2 :
                     OverlapCheck([m EXCEPT !.reader = b], frontier)))))

\* merge_data 434
ReadPatchesChunk(m0) ==
    Step(m0, LAMBDA m :
        Read(m, expect_chunk(m.reader, Chunk.Patches), LAMBDA patch_chunk, b :
            [m EXCEPT !.reader = b, !.patch = patch_chunk]))

\* merge_data 439-447
ReadInsContent(m0) ==
    Step(m0, LAMBDA m :
        Read(m, read_chunk(m.patch, Chunk.InsertedContent), LAMBDA chunk, b :
            IF ~chunk.some THEN m
            ELSE IF ~Utf8Valid(chunk.body) THEN Fail(m, "InvalidUTF8")
            ELSE [m EXCEPT !.patch = b, !.ins = SomeContent(chunk.body)]))

\* merge_data 449-452
ReadDelContent(m0) ==
    Step(m0, LAMBDA m :
        Read(m, read_chunk(m.patch, Chunk.DeletedContent), LAMBDA chunk, b :
            IF ~chunk.some THEN m
            ELSE IF ~Utf8Valid(chunk.body) THEN Fail(m, "InvalidUTF8")
            ELSE [m EXCEPT !.patch = b, !.del = SomeContent(chunk.body)]))

\* usize arithmetic start + len: a start below 0 stands for a wrapped value
\* (2^64 + start); the sum passing 2^64 aborts a debug build
AddOverflows(start, len) == start < 0 /\ start + len >= 0

\* read_next_agent_assignment 239 with the jump left out
AssignedStartNoJump(cursor, jump) == cursor

\* read_next_agent_assignment 239: the run starts at the agent's cursor
\* moved by the jump
AssignedStart(cursor, jump) == cursor + jump

\* BufReader::read_next_agent_assignment (208-247) on a non-empty buffer:
\* val is [span, map]
read_next_agent_assignment(buf, map, release) ==
    Then(next_usize(buf), LAMBDA n0, b1 :
    Then(next_usize(b1), LAMBDA len, b2 :
    Then(IF strip_bit_usize(n0).bit THEN next_zigzag_isize(b2) ELSE ReadOk(0, b2),
         LAMBDA jump, b3 :
        With(strip_bit_usize(n0).val, LAMBDA n :
            IF n = 0 THEN ReadErr("InvalidLength")
            ELSE IF n - 1 >= Len(map) THEN ReadErr("InvalidLength")
            ELSE With(AssignedStart(map[n].cursor, jump), LAMBDA start :
                IF AddOverflows(start, len) /\ ~release THEN ReadErr("panic")
                ELSE ReadOk([span |-> [agent |-> map[n].id, seq |-> start, len |-> len],
                             map |-> [map EXCEPT ![n].cursor = start + len]], b3))))))

RECURSIVE AssignLoop(_, _, _)
\* merge_data 460-471
AssignLoop(m, chunk, next_time) ==
    IF chunk = <<>> THEN [m EXCEPT !.assign_len = next_time]
    ELSE Read(m, read_next_agent_assignment(chunk, m.map, m.release), LAMBDA a, rest :
            IF a.span.agent >= Len(m.oplog.client_data) THEN Fail(m, "InvalidLength")
            ELSE AssignLoop(
                    [m EXCEPT !.oplog = assign_next_time_to_crdt_span(@, next_time, a.span),
                              !.map = a.map],
                    rest, next_time + a.span.len))

\* merge_data 454-474
ReadAgentAssignment(m0) ==
    Step(m0, LAMBDA m :
        Read(m, expect_chunk(m.patch, Chunk.AgentAssignment),
             LAMBDA agent_assignment_chunk, b :
            AssignLoop([m EXCEPT !.patch = b, !.first = OpLogLen(m.oplog)],
                       agent_assignment_chunk, OpLogLen(m.oplog))))

\* next_internal 341-358 with the cursor left at the end of every operation
MakeOpCursorAtEnd(last_cursor_pos, cursor_diff, len, fwd, tag, rest, release) ==
    With(last_cursor_pos + cursor_diff, LAMBDA start :
        ReadOk([start |-> start, end |-> start + len, fwd |-> fwd, tag |-> tag,
                last |-> start + len], rest))

\* ReadPatchesIter::next_internal 341-358: the operation at last_cursor_pos
\* moved by cursor_diff; val is the operation with the next last_cursor_pos in .last
MakeOp(last_cursor_pos, cursor_diff, len, fwd, tag, rest, release) ==
    With(last_cursor_pos + cursor_diff, LAMBDA start :
        IF AddOverflows(start, len) /\ ~release THEN ReadErr("panic")
        ELSE ReadOk([start |-> start, end |-> start + len, fwd |-> fwd, tag |-> tag,
                     last |-> IF tag = "Ins" /\ fwd THEN start + len ELSE start],
                    rest))

\* next_internal 323-333: n encodes the length, and for a delete its direction
OpWithLength(n, diff_not_zero, tag, last_cursor_pos, b1, release) ==
    Then(IF diff_not_zero THEN next_zigzag_isize(b1) ELSE ReadOk(0, b1),
         LAMBDA cursor_diff, b2 :
        IF tag = "Del"
        THEN MakeOp(last_cursor_pos, cursor_diff, strip_bit_usize(n).val,
                    strip_bit_usize(n).bit, tag, b2, release)
        ELSE MakeOp(last_cursor_pos, cursor_diff, n, TRUE, tag, b2, release))

\* the three flags of a patch: has_length, diff_not_zero, and the tag
PatchFlags(n0) ==
    [has_length |-> n0 % 2 = 1,
     diff_not_zero |-> (n0 \div 2) % 2 = 1,
     tag |-> IF (n0 \div 4) % 2 = 1 THEN "Del" ELSE "Ins",
     n |-> n0 \div 8]

\* ReadPatchesIter::next_internal (316-359)
next_internal(buf, last_cursor_pos, release) ==
    Then(next_usize(buf), LAMBDA n0, b1 :
        With(PatchFlags(n0), LAMBDA f :
            IF f.has_length
            THEN OpWithLength(f.n, f.diff_not_zero, f.tag, last_cursor_pos, b1, release)
            ELSE MakeOp(last_cursor_pos, num_decode_zigzag_isize(f.n), 1, TRUE, f.tag,
                        b1, release)))

\* merge_data 484-488: the operation's characters leave the content string
\* of its tag; val is [here, m]
TakeContent(m, tag, len) ==
    IF tag = "Ins" THEN
        IF m.ins.some
        THEN [here |-> SomeContent(consume_chars(m.ins.s, len).here),
              m |-> [m EXCEPT !.ins.s = consume_chars(@, len).rest]]
        ELSE [here |-> NoContent, m |-> m]
    ELSE
        IF m.del.some
        THEN [here |-> SomeContent(consume_chars(m.del.s, len).here),
              m |-> [m EXCEPT !.del.s = consume_chars(@, len).rest]]
        ELSE [here |-> NoContent, m |-> m]

\* merge_data 491 with the operation put before the ones the OpLog has
PushDecodedFirst(t, next_time, op) ==
    [t.m EXCEPT !.oplog.operations =
        <<[time |-> next_time, start |-> op.start, end |-> op.end, fwd |-> op.fwd,
           tag |-> op.tag, cpos |-> <<>>]>> \o @]

\* merge_data 491
PushDecoded(t, next_time, op) ==
    [t.m EXCEPT !.oplog =
        push_op_internal(@, next_time,
                         [start |-> op.start, end |-> op.end, fwd |-> op.fwd],
                         op.tag, t.here)]

RECURSIVE PatchesLoop(_, _, _, _)
\* merge_data 481-493
PatchesLoop(m, chunk, last_cursor_pos, next_time) ==
    IF chunk = <<>> THEN [m EXCEPT !.patches_len = next_time]
    ELSE Read(m, next_internal(chunk, last_cursor_pos, m.release), LAMBDA op, rest :
            PatchesLoop(PushDecoded(TakeContent(m, op.tag, op.end - op.start),
                                    next_time, op),
                        rest, op.last, next_time + (op.end - op.start)))

\* merge_data 479-493
ReadPositionalPatches(m0) ==
    Step(m0, LAMBDA m :
        Read(m, expect_chunk(m.patch, Chunk.PositionalPatches),
             LAMBDA pos_patches_chunk, b :
            PatchesLoop([m EXCEPT !.patch = b], pos_patches_chunk, 0, m.first)))

\* merge_data 495-502 without the comparison of the two lengths
CheckContentLeft(m0) ==
    Step(m0, LAMBDA m :
        IF m.ins.some /\ m.ins.s # <<>> THEN Fail(m, "InvalidContent") ELSE m)

\* merge_data 495-502 without the look at the content left
CheckLengthsOnly(m0) ==
    Step(m0, LAMBDA m :
        IF m.assign_len # m.patches_len THEN Fail(m, "InvalidLength") ELSE m)

\* merge_data 495-502
CheckPatchesLen(m0) ==
    Step(m0, LAMBDA m :
        IF m.assign_len # m.patches_len THEN Fail(m, "InvalidLength")
        ELSE IF m.ins.some /\ m.ins.s # <<>> THEN Fail(m, "InvalidContent")
        ELSE m)

\* merge_data 534: a parent inside this file, n LVs back; going back past 0
\* wraps in a release build and aborts a debug build
LocalParent(next_time, n, release, rest) ==
    IF n > next_time
    THEN IF release THEN ReadOk(ROOT_TIME - (n - next_time - 1), rest)
         ELSE ReadErr("panic")
    ELSE ReadOk(next_time - n, rest)

\* merge_data 519-530: a parent named by (agent, seq), or the root
ForeignParent(m, n, b1) ==
    IF n = 0 THEN ReadOk(ROOT_TIME, b1)
    ELSE IF n - 1 >= Len(m.map) THEN ReadErr("panic")
    ELSE Then(next_usize(b1), LAMBDA seq, b2 :
            With(try_seq_to_time(m.oplog.client_data[m.map[n].id + 1], seq), LAMBDA t :
                IF t < 0 THEN ReadErr("InvalidLength") ELSE ReadOk(t, b2)))

RECURSIVE ReadParents(_, _, _, _)
\* merge_data 514-539
ReadParents(buf, m, next_time, parents) ==
    Then(next_usize(buf), LAMBDA n0, b1 :
        Then(IF n0 % 2 = 1 THEN ForeignParent(m, n0 \div 4, b1)
             ELSE LocalParent(next_time, n0 \div 4, m.release, b1),
             LAMBDA parent, b3 :
            IF (n0 \div 2) % 2 = 1
            THEN ReadParents(b3, m, next_time, Append(parents, parent))
            ELSE ReadOk(Append(parents, parent), b3)))

\* merge_data 546-547 without the call of advance_frontier
InsertTxnHistoryOnly(o, parents, span) == insert_history(o, parents, span)

\* merge_data 546-547
InsertTxn(o, parents, span) == advance_frontier(insert_history(o, parents, span), parents, span)

\* merge_data 552-553 with the check left out
CheckHistoryLenSkipped(m, next_time) == m

\* merge_data 552-553
CheckHistoryLen(m, next_time) ==
    IF next_time # m.patches_len THEN Fail(m, "InvalidLength") ELSE m

RECURSIVE HistoryLoop(_, _, _)
\* merge_data 507-553; the last LV of an empty span at 0 (546-547) is past
\* the range of usize, which aborts a debug build
HistoryLoop(m, chunk, next_time) ==
    IF chunk = <<>> THEN CheckHistoryLen([m EXCEPT !.history_len = next_time], next_time)
    ELSE Read(m, next_usize(chunk), LAMBDA len, b1 :
         Read(m, ReadParents(b1, m, next_time, <<>>), LAMBDA parents, b2 :
            IF next_time + len = 0 /\ ~m.release THEN Fail(m, "panic")
            ELSE HistoryLoop([m EXCEPT !.oplog =
                                InsertTxn(@, parents,
                                          [start |-> next_time, end |-> next_time + len])],
                             b2, next_time + len)))

\* merge_data 505-553
ReadTimeDAG(m0) ==
    Step(m0, LAMBDA m :
        Read(m, expect_chunk(m.patch, Chunk.TimeDAG), LAMBDA history_chunk, b :
            HistoryLoop([m EXCEPT !.patch = b, !.history_len = -2], history_chunk, m.first)))

\* merge_data 556-569: the checksum covers the bytes before the CRC chunk;
\* without a CRC chunk at this place nothing is verified
CheckCrc(m0, data) ==
    Step(m0, LAMBDA m :
        Read(m, read_chunk(m.reader, Chunk.CRC), LAMBDA crc_reader, b :
            IF ~crc_reader.some THEN m
            ELSE Read(m, next_u32_le(crc_reader.body), LAMBDA expected_crc, b2 :
                    IF checksum(SubSeq(data, 1, Len(data) - Len(m.reader))) # expected_crc
                    THEN Fail(m, "ChecksumFailed")
                    ELSE [m EXCEPT !.reader = b])))

\* merge_data 384-411: header and FileInfo
DecodeHeader(self, data, release) ==
    ReadFileInfo(ReadVersion(read_magic(MergeStart(self, data, release))))

\* merge_data 413-493: StartBranch and the Patches chunk up to the patches
DecodePatches(m) ==
    ReadPositionalPatches(ReadAgentAssignment(ReadDelContent(ReadInsContent(
        ReadPatchesChunk(ReadStartBranch(m))))))

\* OpLog::merge_data (382-574): [res, oplog]; res is "Ok", the ParseError or
\* "panic", and oplog is self as the call left it
merge_data(self, data, release) ==
    With(CheckCrc(ReadTimeDAG(CheckPatchesLen(DecodePatches(
             DecodeHeader(self, data, release)))), data),
         LAMBDA m : [res |-> IF m.err = "none" THEN "Ok" ELSE m.err, oplog |-> m.oplog,
                     detail |-> m.detail,
                     lens |-> [assign |-> m.assign_len, patches |-> m.patches_len,
                               history |-> m.history_len],
                     ins_left |-> IF m.ins.some THEN Len(m.ins.s) ELSE 0,
                     map |-> m.map])

\* OpLog::load_from (373-375)
load_from(data, release) == merge_data(OpLogNew, data, release)

(***************************************************************************)
(* OpLog::encode and encode_from (encode_oplog.rs, not among the files at  *)
(* hand): the writer of the layout that merge_data reads, by spec section  *)
(* 6. A file holds the LVs from first_lv on, in LV order; the agent names  *)
(* are written in AgentId order, so an agent's index in the file is its    *)
(* AgentId. An option left out leaves the chunk of that content out.       *)
(***************************************************************************)
\* a chunk: type, length, body
WriteChunk(type, chunk_body) ==
    encode_usize(type) \o encode_usize(Len(chunk_body)) \o chunk_body

RECURSIVE Concat(_)
\* the byte strings of a list, one after the other
Concat(list) == IF list = <<>> THEN <<>> ELSE Head(list) \o Concat(Tail(list))

\* the list with elem put in front of its element idx (at the end for
\* idx = Len + 1)
InsertBefore(list, idx, elem) ==
    SubSeq(list, 1, idx - 1) \o <<elem>> \o SubSeq(list, idx, Len(list))

RECURSIVE WriteAgentNames(_, _)
WriteAgentNames(client_data, i) ==
    IF i > Len(client_data) THEN <<>>
    ELSE encode_usize(Len(client_data[i].name)) \o client_data[i].name
         \o WriteAgentNames(client_data, i + 1)

RECURSIVE WriteFrontier(_, _, _)
\* a frontier as (agent index, has_more), seq pairs
WriteFrontier(o, f, i) ==
    IF i > Len(f) THEN <<>>
    ELSE encode_usize(mix_bit(time_to_crdt_id(o, f[i]).agent, i < Len(f)))
         \o encode_usize(time_to_crdt_id(o, f[i]).seq)
         \o WriteFrontier(o, f, i + 1)

\* one agent-assignment run: (agent index + 1, has_jump), len, jump
WriteAssignRun(agent, seq, len, cursor) ==
    encode_usize(mix_bit(agent + 1, seq # cursor)) \o encode_usize(len)
    \o (IF seq # cursor THEN encode_usize(num_encode_zigzag_isize(seq - cursor))
        ELSE <<>>)

RECURSIVE WriteAssignment(_, _, _, _)
\* the agent-assignment runs from first_lv on; cursors maps an agent to the
\* seq after its last run in the file
WriteAssignment(cwl, first_lv, i, cursors) ==
    IF i > Len(cwl) THEN <<>>
    ELSE IF cwl[i].time + cwl[i].len <= first_lv
    THEN WriteAssignment(cwl, first_lv, i + 1, cursors)
    ELSE With(Max(first_lv - cwl[i].time, 0), LAMBDA d :
            WriteAssignRun(cwl[i].agent, cwl[i].seq + d, cwl[i].len - d,
                           cursors[cwl[i].agent])
            \o WriteAssignment(cwl, first_lv, i + 1,
                   [cursors EXCEPT ![cwl[i].agent] = cwl[i].seq + cwl[i].len]))

\* the part of an operation run from LV first_lv on
ClipOp(op, first_lv) ==
    IF op.time >= first_lv THEN op
    ELSE With(first_lv - op.time, LAMBDA d :
            [op EXCEPT !.time = first_lv,
                       !.start = IF op.tag = "Ins" THEN @ + d ELSE @,
                       !.end = IF op.tag = "Ins" THEN @ ELSE @ - d,
                       !.cpos = IF @ = <<>> THEN @ ELSE <<@[1] + d, @[2]>>])

\* write_op: the flags has_length, diff_not_zero and the tag below the
\* length (with a delete's direction) or the cursor's move
WriteOp(op, last_cursor_pos) ==
    IF OpLenOf(op) # 1 \/ ~op.fwd
    THEN encode_usize(
            mix_bit(mix_bit(mix_bit(
                IF op.tag = "Del" THEN mix_bit(OpLenOf(op), op.fwd) ELSE OpLenOf(op),
                op.tag = "Del"), op.start # last_cursor_pos), TRUE))
         \o (IF op.start # last_cursor_pos
             THEN encode_usize(num_encode_zigzag_isize(op.start - last_cursor_pos))
             ELSE <<>>)
    ELSE encode_usize(
            mix_bit(mix_bit(mix_bit(
                num_encode_zigzag_isize(op.start - last_cursor_pos),
                op.tag = "Del"), op.start # last_cursor_pos), FALSE))

RECURSIVE WritePatches(_, _, _, _)
WritePatches(ops, first_lv, i, last_cursor_pos) ==
    IF i > Len(ops) THEN <<>>
    ELSE IF ops[i].time + OpLenOf(ops[i]) <= first_lv
    THEN WritePatches(ops, first_lv, i + 1, last_cursor_pos)
    ELSE With(ClipOp(ops[i], first_lv), LAMBDA op :
            WriteOp(op, last_cursor_pos)
            \o WritePatches(ops, first_lv, i + 1,
                            IF op.tag = "Ins" /\ op.fwd THEN op.end ELSE op.start))

RECURSIVE WriteContent(_, _, _, _, _)
\* the stored content of the operations of a tag from first_lv on
WriteContent(ops, store, tag, first_lv, i) ==
    IF i > Len(ops) THEN <<>>
    ELSE IF ops[i].time + OpLenOf(ops[i]) <= first_lv \/ ops[i].tag # tag
            \/ ops[i].cpos = <<>>
    THEN WriteContent(ops, store, tag, first_lv, i + 1)
    ELSE With(ClipOp(ops[i], first_lv), LAMBDA op :
            SubSeq(store, op.cpos[1] + 1, op.cpos[2])
            \o WriteContent(ops, store, tag, first_lv, i + 1))

\* one parent of an entry starting at span_start: inside the file by its
\* distance, else by (agent index + 1, seq), the root as agent 0
WriteParent(o, first_lv, span_start, parent, has_more) ==
    IF parent = ROOT_TIME THEN encode_usize(mix_bit(mix_bit(0, has_more), TRUE))
    ELSE IF parent >= first_lv
    THEN encode_usize(mix_bit(mix_bit(span_start - parent, has_more), FALSE))
    ELSE encode_usize(mix_bit(mix_bit(time_to_crdt_id(o, parent).agent + 1, has_more),
                              TRUE))
         \o encode_usize(time_to_crdt_id(o, parent).seq)

RECURSIVE WriteParents(_, _, _, _, _)
WriteParents(o, first_lv, span_start, parents, i) ==
    IF i > Len(parents) THEN <<>>
    ELSE WriteParent(o, first_lv, span_start, parents[i], i < Len(parents))
         \o WriteParents(o, first_lv, span_start, parents, i + 1)

RECURSIVE WriteHistory(_, _, _)
\* the history entries from first_lv on; the rest of an entry that starts
\* before first_lv has the LV before first_lv as its parent
WriteHistory(o, first_lv, i) ==
    IF i > Len(o.history) THEN <<>>
    ELSE IF o.history[i].end <= first_lv THEN WriteHistory(o, first_lv, i + 1)
    ELSE IF o.history[i].start < first_lv
    THEN encode_usize(o.history[i].end - first_lv)
         \o WriteParents(o, first_lv, first_lv, <<first_lv - 1>>, 1)
         \o WriteHistory(o, first_lv, i + 1)
    ELSE encode_usize(o.history[i].end - o.history[i].start)
         \o WriteParents(o, first_lv, o.history[i].start, o.history[i].parents, 1)
         \o WriteHistory(o, first_lv, i + 1)

\* the bytes a chunk of an unknown type is given in a file
UnknownChunkType == 50
ReservedBytes == <<0, 0, 0, 0, 0, 0>>
UserDataBytes == <<117>>
UnknownChunk == WriteChunk(UnknownChunkType, <<120>>)
NoExtra == [level |-> "none", idx |-> 0]

\* the name under which two chunks of a level change places
SwapOf(level) ==
    IF level = "top" THEN "swap_top"
    ELSE IF level = "fileinfo" THEN "swap_fileinfo"
    ELSE "swap_patches"

\* the chunks idx and idx + 1 of the list change places
Swapped(list, idx) ==
    SubSeq(list, 1, idx - 1) \o <<list[idx + 1], list[idx]>>
        \o SubSeq(list, idx + 2, Len(list))

\* the chunks of a level, with the unknown chunk at its place if the place
\* is on this level, or with two of them in each other's place
WithExtra(chunks, level, extra) ==
    IF extra.level = level /\ extra.idx <= Len(chunks) + 1
    THEN InsertBefore(chunks, extra.idx, UnknownChunk)
    ELSE IF extra.level = SwapOf(level) /\ extra.idx < Len(chunks)
    THEN Swapped(chunks, extra.idx)
    ELSE chunks

\* the chunks inside FileInfo
FileInfoChunks(o, opts) ==
    (IF opts.user_data THEN <<WriteChunk(Chunk.UserData, UserDataBytes)>> ELSE <<>>)
    \o <<WriteChunk(Chunk.AgentNames, WriteAgentNames(o.client_data, 1))>>

WriteFileInfo(o, opts, extra) ==
    WriteChunk(Chunk.FileInfo,
               Concat(WithExtra(FileInfoChunks(o, opts), "fileinfo", extra)))

\* the frontier of the LVs below first_lv: those that are no other's ancestor
PrefixFrontier(o, first_lv) ==
    IF first_lv = 0 THEN RootFrontier
    ELSE SortedSeq({t \in 0..(first_lv - 1) :
            \A u \in 0..(first_lv - 1) : u # t => t \notin Ancestors(o.history, <<u>>)})

\* the LVs below first_lv hold all their parents, so the rest can be sent
\* to a peer that holds exactly these
IsPrefix(o, first_lv) ==
    /\ first_lv \in 0..OpLogLen(o)
    /\ Ancestors(o.history, PrefixFrontier(o, first_lv)) = 0..(first_lv - 1)

WriteStartBranch(o, first_lv) ==
    IF first_lv = 0 THEN <<>>
    ELSE <<WriteChunk(Chunk.StartBranch,
              WriteChunk(Chunk.Frontier,
                         WriteFrontier(o, PrefixFrontier(o, first_lv), 1)))>>

WriteStored(type, on, content) ==
    IF on /\ content # <<>> THEN <<WriteChunk(type, content)>> ELSE <<>>

\* the chunks inside Patches
PatchChunks(o, opts, first_lv) ==
    WriteStored(Chunk.InsertedContent, opts.store_inserted_content,
                WriteContent(o.operations, o.ins_content, "Ins", first_lv, 1))
    \o WriteStored(Chunk.DeletedContent, opts.store_deleted_content,
                   WriteContent(o.operations, o.del_content, "Del", first_lv, 1))
    \o <<WriteChunk(Chunk.AgentAssignment,
             WriteAssignment(o.client_with_lv, first_lv, 1,
                             [a \in 0..(Len(o.client_data) - 1) |-> 0])),
         WriteChunk(Chunk.PositionalPatches,
             WritePatches(o.operations, first_lv, 1, 0)),
         WriteChunk(Chunk.TimeDAG, WriteHistory(o, first_lv, 1))>>

WritePatchesChunk(o, opts, first_lv, extra) ==
    WriteChunk(Chunk.Patches,
               Concat(WithExtra(PatchChunks(o, opts, first_lv), "patches", extra)))

\* everything the checksum covers, then the CRC chunk; an unknown chunk of
\* the top level at an index past the CRC chunk comes after it
WriteCrc(covered) == covered \o WriteChunk(Chunk.CRC, checksum(covered))

TopChunks(o, opts, first_lv, extra) ==
    <<WriteFileInfo(o, opts, extra)>>
    \o (IF extra.level = "no_start" THEN <<>> ELSE WriteStartBranch(o, first_lv))
    \o <<WritePatchesChunk(o, opts, first_lv, extra)>>

encode_from_lv(o, opts, first_lv, extra) ==
    With(TopChunks(o, opts, first_lv, extra), LAMBDA top :
        IF extra.level = "top" /\ extra.idx = Len(top) + 2
        THEN WriteCrc(MAGIC_BYTES \o ReservedBytes \o encode_usize(PROTOCOL_VERSION)
                      \o Concat(top)) \o UnknownChunk
        ELSE WriteCrc(MAGIC_BYTES \o ReservedBytes \o encode_usize(PROTOCOL_VERSION)
                      \o Concat(WithExtra(top, "top", extra))))

\* OpLog::encode
encode(o, opts) == encode_from_lv(o, opts, 0, NoExtra)

(***************************************************************************)
(* The peers: one builds an OpLog and writes files from it, the other      *)
(* reads them with load_from and merge_data. Between the two a file may be *)
(* damaged.                                                                *)
(***************************************************************************)
MaxCodecTime == 3
MaxMerges == 2

AgentA == <<97>>
AgentB == <<98>>
Agents == {AgentA, AgentB}

StoreAll == [store_inserted_content |-> TRUE, store_deleted_content |-> TRUE,
             user_data |-> TRUE]
StoreNone == [store_inserted_content |-> FALSE, store_deleted_content |-> FALSE,
              user_data |-> FALSE]
OptsMenu == {StoreAll, StoreNone}

\* the operations a peer makes: [tag, span, content]
InsOne == [tag |-> "Ins", span |-> [start |-> 0, end |-> 1, fwd |-> TRUE],
           content |-> SomeContent(<<97>>)]
InsTwo == [tag |-> "Ins", span |-> [start |-> 1, end |-> 3, fwd |-> TRUE],
           content |-> SomeContent(<<98, 99>>)]
\* local_delete_with_content
DelKept == [tag |-> "Del", span |-> [start |-> 0, end |-> 1, fwd |-> TRUE],
            content |-> SomeContent(<<97>>)]
\* local_delete
DelOne == [tag |-> "Del", span |-> [start |-> 0, end |-> 1, fwd |-> TRUE],
           content |-> NoContent]
DelBack == [tag |-> "Del", span |-> [start |-> 0, end |-> 2, fwd |-> FALSE],
            content |-> NoContent]
ShapeMenu == {InsOne, InsTwo, DelKept, DelOne, DelBack}

\* the next seq of the agent of that name, 0 for a new agent
NextSeqOf(o, name) ==
    IF get_agent_id(o, name) = -1 THEN 0
    ELSE get_next_seq(o.client_data[get_agent_id(o, name) + 1])

PushShape(o, name, parents, shape) ==
    PushOpAt(o, name, NextSeqOf(o, name), parents, shape.tag, shape.span,
             shape.content)

\* the parents a new operation names: the frontier, or the root for an
\* operation concurrent with all the others
ParentMenu(o) == {o.frontier, RootFrontier}

\* a frontier as the set of the (agent name, seq) of its LVs
RemoteFrontier(o, f) ==
    {<<o.client_data[time_to_crdt_id(o, f[i]).agent + 1].name,
       time_to_crdt_id(o, f[i]).seq>> : i \in {j \in 1..Len(f) : f[j] # ROOT_TIME}}

NoFile ==
    [data |-> <<>>, first |-> 0, opts |-> StoreNone, extra |-> NoExtra,
     of |-> OpLogNew, start |-> {}, plain |-> <<>>, flips |-> 0, at |-> 0,
     stripped |-> FALSE, cut |-> FALSE, swap |-> NoExtra, used |-> 0]

NoPeer ==
    [oplog |-> OpLogNew, res |-> "none", before |-> OpLogNew, n |-> 0,
     detail |-> NoDetail, lens |-> [assign |-> -1, patches |-> -1, history |-> -1],
     ins_left |-> 0, map |-> <<>>]

\* the file encode_from writes for the LVs of o from first_lv on; plain is
\* the same file without the chunk of unknown type
NewFile(o, opts, first_lv, extra) ==
    [NoFile EXCEPT !.data = encode_from_lv(o, opts, first_lv, extra),
                   !.first = first_lv, !.opts = opts, !.extra = extra, !.of = o,
                   !.start = RemoteFrontier(o, PrefixFrontier(o, first_lv)),
                   !.plain = encode_from_lv(o, opts, first_lv, NoExtra)]

\* the places a chunk of unknown type is put at
MaxPlace == 6
ExtraMenu == [level : {"top", "fileinfo", "patches"}, idx : 1..MaxPlace]

\* the values a damaged byte takes
ByteValues == 256
FlipValues(b) ==
    {(b + 1) % ByteValues, (b + ByteValues - 1) % ByteValues,
     (b + (ByteValues \div 2)) % ByteValues}

\* the OpLogs whose files get damaged
TamperSources ==
    {PushShape(OpLogNew, AgentA, RootFrontier, s1) : s1 \in {InsTwo, DelKept}}
    \cup {PushShape(PushShape(OpLogNew, AgentA, RootFrontier, s1), AgentB, p, s2) :
             s1 \in {InsTwo}, p \in {RootFrontier, <<1>>}, s2 \in {InsOne, DelOne}}

\* a peer makes an operation; the first is AgentA's, the names being alike
CodecPush ==
    /\ file = NoFile
    /\ \E name \in Agents, shape \in ShapeMenu :
          /\ wlog = OpLogNew => name = AgentA
          /\ OpLogLen(wlog) + OpLenOf(shape.span) <= MaxCodecTime
          /\ \E parents \in ParentMenu(wlog) :
                wlog' = PushShape(wlog, name, parents, shape)
    /\ UNCHANGED <<file, peer, mt_vars, diff_vars, crdt_vars, branch_vars, fn_vars>>

\* OpLog::encode
CodecEncode ==
    /\ file = NoFile
    /\ OpLogLen(wlog) > 0
    /\ \E opts \in OptsMenu : file' = NewFile(wlog, opts, 0, NoExtra)
    /\ UNCHANGED <<wlog, peer, mt_vars, diff_vars, crdt_vars, branch_vars, fn_vars>>

\* OpLog::encode_from, from the frontier of a prefix of the LVs
CodecEncodeFrom ==
    /\ file = NoFile
    /\ \E opts \in OptsMenu, first_lv \in 1..(OpLogLen(wlog) - 1) :
          /\ IsPrefix(wlog, first_lv)
          /\ file' = NewFile(wlog, opts, first_lv, NoExtra)
    /\ UNCHANGED <<wlog, peer, mt_vars, diff_vars, crdt_vars, branch_vars, fn_vars>>

\* the file of merge_data's result
Merged(r, self, n) ==
    [oplog |-> r.oplog, res |-> r.res, before |-> self, n |-> n, detail |-> r.detail,
     lens |-> r.lens, ins_left |-> r.ins_left, map |-> r.map]

\* OpLog::load_from for a new peer, OpLog::merge_data for one that holds
\* operations; a peer whose call failed is given no other file
CodecMerge ==
    /\ file # NoFile
    /\ peer.n < MaxMerges
    /\ peer.res \in {"none", "Ok"}
    /\ \E release \in BOOLEAN :
          peer' = Merged(merge_data(peer.oplog, file.data, release), peer.oplog,
                         peer.n + 1)
    /\ file' = [file EXCEPT !.used = @ + 1]
    /\ UNCHANGED <<wlog, mt_vars, diff_vars, crdt_vars, branch_vars, fn_vars>>

\* the file is done with, and the peer waits for the next
CodecDrop ==
    /\ file.used > 0
    /\ peer.res = "Ok"
    /\ peer.n < MaxMerges
    /\ file' = NoFile
    /\ UNCHANGED <<wlog, peer, mt_vars, diff_vars, crdt_vars, branch_vars, fn_vars>>

Untouched(f) ==
    /\ f # NoFile /\ f.used = 0 /\ f.flips = 0 /\ ~f.stripped /\ ~f.cut
    /\ f.extra = NoExtra /\ f.swap = NoExtra

\* a writer of a later version puts a chunk of a type of its own in the file
TamperExtra ==
    /\ Untouched(file)
    /\ \E e \in ExtraMenu :
          /\ encode_from_lv(file.of, file.opts, file.first, e) # file.plain
          /\ file' = NewFile(file.of, file.opts, file.first, e)
    /\ UNCHANGED <<wlog, peer, mt_vars, diff_vars, crdt_vars, branch_vars, fn_vars>>

\* the CRC chunk is cut off the end of the file
TamperStrip ==
    /\ Untouched(file)
    /\ file' = [file EXCEPT
                  !.data = SubSeq(@, 1, Len(@) - Len(WriteChunk(Chunk.CRC, CrcOnes))),
                  !.stripped = TRUE]
    /\ UNCHANGED <<wlog, peer, mt_vars, diff_vars, crdt_vars, branch_vars, fn_vars>>

\* the file ends early: its first n bytes are left
TamperCut ==
    /\ Untouched(file)
    /\ \E n \in 0..(Len(file.data) - 1) :
          file' = [file EXCEPT !.data = SubSeq(@, 1, n), !.cut = TRUE, !.at = n]
    /\ UNCHANGED <<wlog, peer, mt_vars, diff_vars, crdt_vars, branch_vars, fn_vars>>

\* the writer puts two neighbouring chunks of a level in each other's place
SwapMenu == [level : {"swap_top", "swap_fileinfo", "swap_patches"}, idx : 1..MaxPlace]

TamperSwap ==
    /\ Untouched(file)
    /\ \E e \in SwapMenu :
          /\ encode_from_lv(file.of, file.opts, file.first, e) # file.plain
          /\ file' = [file EXCEPT
                        !.data = encode_from_lv(file.of, file.opts, file.first, e),
                        !.swap = e]
    /\ UNCHANGED <<wlog, peer, mt_vars, diff_vars, crdt_vars, branch_vars, fn_vars>>

\* one byte of the file changes
TamperFlip ==
    /\ file # NoFile /\ file.used = 0 /\ file.flips = 0 /\ file.extra = NoExtra
    /\ ~file.cut /\ file.swap = NoExtra
    /\ \E i \in 1..Len(file.data) : \E v \in FlipValues(file.data[i]) :
          file' = [file EXCEPT !.data[i] = v, !.flips = 1, !.at = i]
    /\ UNCHANGED <<wlog, peer, mt_vars, diff_vars, crdt_vars, branch_vars, fn_vars>>

\* the agent runs of a writer that gives all n LVs to the first agent of the
\* file, out of seq order: seq k first, then the seqs from 0; the second run
\* is written with a negative jump
ForeignRuns(n, k) ==
    <<[time |-> 0, agent |-> 0, seq |-> k, len |-> 1],
      [time |-> 1, agent |-> 0, seq |-> 0, len |-> n - 1]>>

\* a writer of its own makes the file's AgentAssignment
TamperAssign ==
    /\ Untouched(file) /\ file.of = wlog /\ OpLogLen(wlog) > 1
    /\ \E k \in 0..(OpLogLen(wlog) - 1) :
          file' = NewFile([wlog EXCEPT
                              !.client_with_lv = ForeignRuns(OpLogLen(wlog), k)],
                          file.opts, 0, NoExtra)
    /\ UNCHANGED <<wlog, peer, mt_vars, diff_vars, crdt_vars, branch_vars, fn_vars>>

\* a writer of its own writes the LVs from first_lv on and leaves out the
\* StartBranch chunk
TamperNoStart ==
    /\ Untouched(file) /\ file.of = wlog /\ file.first = 0
    /\ \E first_lv \in 1..(OpLogLen(wlog) - 1) :
          /\ IsPrefix(wlog, first_lv)
          /\ file' = NewFile(wlog, file.opts, first_lv,
                            [level |-> "no_start", idx |-> 0])
    /\ UNCHANGED <<wlog, peer, mt_vars, diff_vars, crdt_vars, branch_vars, fn_vars>>

(***************************************************************************)
(* Claims about the container                                              *)
(***************************************************************************)
\* the file at hand has just been read by a new peer with load_from
JustLoaded == file # NoFile /\ file.used = 1 /\ peer.n = 1

\* C2 (as claimed, for the options that store all content): load_from of
\* what encode wrote for an OpLog succeeds and returns an OpLog equal to it:
\* operations, history, agent assignment, frontier and stored content.
RoundTrip ==
    (JustLoaded /\ file.first = 0 /\ file.opts = StoreAll)
        => (peer.res = "Ok" /\ peer.oplog = file.of)

\* C3 (as claimed): a file that encode wrote and in which one byte was
\* changed, whichever byte it is, is not loaded: load_from does not return
\* Ok for it.
ChecksumCatchesFlip ==
    (JustLoaded /\ file.flips = 1 /\ ~file.stripped) => peer.res # "Ok"

\* the LVs of a history entry
EntryLVs(e) == e.start..(e.end - 1)

HistoryCovers(o) ==
    /\ \A i \in 1..Len(o.history) : \A j \in 1..Len(o.history) :
          i < j => /\ EntryLVs(o.history[i]) \cap EntryLVs(o.history[j]) = {}
                   /\ o.history[i].end <= o.history[j].start
    /\ UNION {EntryLVs(o.history[i]) : i \in 1..Len(o.history)}
          = 0..(OpLogLen(o) - 1)

\* C6: after load_from and merge_data calls that returned Ok, whatever the
\* bytes of the files were, the spans of the history entries are pairwise
\* disjoint, ascending, and their union is [0, oplog.len()).
HistoryCoverage == peer.res = "Ok" => HistoryCovers(peer.oplog)

\* a file with a changed TimeDAG and no checksum was loaded, and another
\* file was merged after a first
HistoryWitness ==
    /\ peer.res = "Ok" /\ peer.n = MaxMerges
    /\ file.flips = 1 /\ file.stripped
    /\ Len(peer.oplog.history) > 1

\* the file at hand has just been merged into a peer that held operations,
\* and the frontier it starts from is not the peer's
Overlapping ==
    /\ file # NoFile /\ file.used > 0 /\ file.first > 0
    /\ peer.before # OpLogNew
    /\ file.start # RemoteFrontier(peer.before, peer.before.frontier)

\* C9 (as claimed): merge_data of a file whose StartBranch frontier differs
\* from the frontier of the OpLog it is merged into returns DataMissing; the
\* program does not abort and no operation is appended.
OverlapRefused ==
    Overlapping => /\ peer.res = "DataMissing"
                   /\ peer.oplog.operations = peer.before.operations

\* the chunk of unknown type comes after every chunk of its list that the
\* decoder reads
ExtraIsLast(f) ==
    CASE f.extra.level = "fileinfo" ->
            f.extra.idx = Len(FileInfoChunks(f.of, f.opts)) + 1
      [] f.extra.level = "patches" ->
            f.extra.idx = Len(PatchChunks(f.of, f.opts, f.first)) + 1
      [] f.extra.level = "top" ->
            f.extra.idx > Len(TopChunks(f.of, f.opts, f.first, NoExtra))
      [] OTHER -> FALSE

SameAsPlain ==
    /\ peer.res = "Ok"
    /\ peer.oplog = load_from(file.plain, FALSE).oplog

AssignedIds(o) ==
    UNION {{<<o.client_with_lv[i].time + k, o.client_with_lv[i].agent,
              o.client_with_lv[i].seq + k>> : k \in 0..(o.client_with_lv[i].len - 1)} :
           i \in 1..Len(o.client_with_lv)}

\* the (LV, agent, seq) triples of the agents' seq -> LV lists
SeqTimes(o) ==
    UNION {UNION {{<<o.client_data[a].item_times[i].time + k, a - 1,
                     o.client_data[a].item_times[i].seq + k>> :
                      k \in 0..(o.client_data[a].item_times[i].len - 1)} :
                  i \in 1..Len(o.client_data[a].item_times)} :
           a \in 1..Len(o.client_data)}

\* every LV below len() has one (agent, seq), no (agent, seq) has two LVs,
\* and the two maps say the same
IdsUnique(o) ==
    /\ {x[1] : x \in AssignedIds(o)} = 0..(OpLogLen(o) - 1)
    /\ \A x \in AssignedIds(o), y \in AssignedIds(o) :
          (x[1] = y[1] \/ (x[2] = y[2] /\ x[3] = y[3])) => x = y
    /\ SeqTimes(o) = AssignedIds(o)

\* C11 (Id uniqueness): after a successful merge_data every LV in [0, len)
\* is assigned to exactly one (agent, seq) and no (agent, seq) to two LVs,
\* also for a file whose AgentAssignment has a run with a negative jump.
IdUniqueness == peer.res = "Ok" => IdsUnique(peer.oplog)

\* the LVs the history has entries for
HistoryTimes(o) == SpansSet(o.history)

\* the LVs of the history that no other LV descends from
Tips(o) ==
    {t \in HistoryTimes(o) :
        \A u \in HistoryTimes(o) : u = t \/ t \notin Ancestors(o.history, <<u>>)}

\* the frontier is the set of the tips, ROOT when there is no LV
FrontierIsTips(o) ==
    /\ IsAntichain(o.history, SeqToSet(o.frontier) \ {ROOT_TIME})
    /\ o.frontier = IF Tips(o) = {} THEN RootFrontier ELSE SortedSeq(Tips(o))

Replicas == Agents

\* CRDTId ROOT: the start as a left origin, the end as a right origin
ROOT_ID == <<<<>>, 0>>

ReplicaNew == [oplog |-> OpLogNew, items |-> <<>>, double_deletes |-> {}]

RECURSIVE NameLess(_, _)
\* agent names in lexicographic order
NameLess(a, b) ==
    IF b = <<>> THEN FALSE
    ELSE IF a = <<>> THEN TRUE
    ELSE IF a[1] # b[1] THEN a[1] < b[1]
    ELSE NameLess(Tail(a), Tail(b))

\* the tiebreak of 4.5: agent id lexicographically, then seq
IdLess(x, y) == NameLess(x[1], y[1]) \/ (x[1] = y[1] /\ x[2] < y[2])

\* the span position of the entry of that id, from 1; 0 when there is none
SpanPos(items, id) ==
    IF \E i \in 1..Len(items) : items[i].id = id
    THEN CHOOSE i \in 1..Len(items) : items[i].id = id
    ELSE 0

\* 4.5 step 1: p_left, 0 for ROOT
LeftPos(items, left_origin) ==
    IF left_origin = ROOT_ID THEN 0 ELSE SpanPos(items, left_origin)

\* 4.5 step 2, first item: E's left origin is I's, or sits strictly before
\* it in span order
OriginNotAfter(items, E, I) ==
    \/ E.left_origin = I.left_origin
    \/ LeftPos(items, E.left_origin) < LeftPos(items, I.left_origin)

\* the tiebreak with the greater id first
TiebreakGreaterFirst(E, I) == E.left_origin = I.left_origin => IdLess(E.id, I.id)

\* 4.5 step 2, second item: with the same left origin, I goes before E iff
\* I's id is the smaller
TiebreakBefore(E, I) == E.left_origin = I.left_origin => IdLess(I.id, E.id)

\* 4.5 step 2, third item: a right origin other than I's means the scan
\* goes on past E
SameRightOrigin(E, I) == E.right_origin = I.right_origin

\* 4.5 step 2: E blocks the scan when all of the three hold
Blocks(items, E, I) ==
    /\ OriginNotAfter(items, E, I)
    /\ TiebreakBefore(E, I)
    /\ SameRightOrigin(E, I)

RECURSIVE Scan(_, _, _)
\* 4.5 step 2: the scan from span position i (from 1) to the insertion
\* point: the first entry that blocks, I's right origin, or the end
Scan(items, I, i) ==
    IF i > Len(items) THEN i
    ELSE IF items[i].id = I.right_origin THEN i
    ELSE IF Blocks(items, items[i], I) THEN i
    ELSE Scan(items, I, i + 1)

\* 4.5 steps 1 and 2: where I goes
InsertionPoint(items, I) == Scan(items, I, LeftPos(items, I.left_origin) + 1)

\* 4.5 step 3: I spliced in at the insertion point
integrate(items, I) ==
    SubSeq(items, 1, InsertionPoint(items, I) - 1) \o <<I>>
    \o SubSeq(items, InsertionPoint(items, I), Len(items))

\* the number of live characters before span position i
ContentBefore(items, i) == Cardinality({j \in 1..(i - 1) : items[j].live})

\* the Branch content: the live characters in span order
ContentOf(items) ==
    LET live == SelectSeq(items, LAMBDA e : e.live)
    IN [i \in 1..Len(live) |-> live[i].ch]

(***************************************************************************)
(* Remote transactions (4.2). A transaction is one run of an agent:        *)
(* [agent, seq_start, parents, tag, left_origin, right_origin, content,    *)
(* target]; an insertion carries its origins and its text, a deletion the  *)
(* id it deletes. parents is a set of CRDTIds, empty for ROOT.             *)
(***************************************************************************)
TxnLen(txn) == IF txn.tag = "Ins" THEN Len(txn.content) ELSE 1

\* the (agent, seq) range of the transaction
TxnIds(txn) == {<<txn.agent, txn.seq_start + k>> : k \in 0..(TxnLen(txn) - 1)}

\* the ids the transaction refers to: its parents, its origins, its target
TxnNeeds(txn) ==
    txn.parents \cup ({txn.left_origin, txn.right_origin, txn.target} \ {ROOT_ID})

\* the OpLog has an LV for the id
Known(o, id) ==
    /\ get_agent_id(o, id[1]) >= 0
    /\ try_seq_to_time(o.client_data[get_agent_id(o, id[1]) + 1], id[2]) >= 0

\* the LV of a known id
KnownTime(o, id) ==
    try_seq_to_time(o.client_data[get_agent_id(o, id[1]) + 1], id[2])

\* the ids the OpLog has LVs for
KnownIds(o) ==
    UNION {UNION {{<<o.client_data[a].name, o.client_data[a].item_times[i].seq + k>> :
                      k \in 0..(o.client_data[a].item_times[i].len - 1)} :
                  i \in 1..Len(o.client_data[a].item_times)} :
           a \in 1..Len(o.client_data)}

\* the parents as a local frontier
LocalParents(o, parents) ==
    IF parents = {} THEN RootFrontier
    ELSE SortedSeq({KnownTime(o, p) : p \in parents})

\* the entry of character k (from 0) of an insertion: the first has the
\* transaction's left origin, the others the character before them
TxnEntry(txn, k) ==
    [id |-> <<txn.agent, txn.seq_start + k>>,
     left_origin |-> IF k = 0 THEN txn.left_origin
                     ELSE <<txn.agent, txn.seq_start + k - 1>>,
     right_origin |-> txn.right_origin,
     ch |-> txn.content[k + 1],
     live |-> TRUE]

RECURSIVE IntegrateRun(_, _, _)
IntegrateRun(items, txn, k) ==
    IF k >= TxnLen(txn) THEN items
    ELSE IntegrateRun(integrate(items, TxnEntry(txn, k)), txn, k + 1)

\* 4.5 step 3 for an insertion: the entries are spliced in, the operation
\* is recorded at the content position of the splice with its text, the
\* history gets the span and the frontier advances
ApplyInsert(rep, txn) ==
    [rep EXCEPT
       !.items = IntegrateRun(@, txn, 0),
       !.oplog = PushOpAt(@, txn.agent, txn.seq_start,
                     LocalParents(rep.oplog, txn.parents), "Ins",
                     [start |-> ContentBefore(IntegrateRun(rep.items, txn, 0),
                                    SpanPos(IntegrateRun(rep.items, txn, 0),
                                            <<txn.agent, txn.seq_start>>)),
                      end |-> ContentBefore(IntegrateRun(rep.items, txn, 0),
                                    SpanPos(IntegrateRun(rep.items, txn, 0),
                                            <<txn.agent, txn.seq_start>>))
                              + TxnLen(txn),
                      fwd |-> TRUE],
                     SomeContent(txn.content))]

\* 4.5, deletion: the entry becomes a tombstone; the deletion of a
\* tombstone goes to the DoubleDeleteList
ApplyDelete(rep, txn) ==
    [rep EXCEPT
       !.items[SpanPos(rep.items, txn.target)].live = FALSE,
       !.double_deletes =
           IF rep.items[SpanPos(rep.items, txn.target)].live THEN @
           ELSE @ \cup {<<txn.target,
                          Cardinality({d \in @ : d[1] = txn.target}) + 1>>},
       !.oplog = PushOpAt(@, txn.agent, txn.seq_start,
                     LocalParents(rep.oplog, txn.parents), "Del",
                     [start |-> ContentBefore(rep.items,
                                              SpanPos(rep.items, txn.target)),
                      end |-> ContentBefore(rep.items,
                                            SpanPos(rep.items, txn.target)) + 1,
                      fwd |-> TRUE],
                     NoContent)]

\* apply_remote_txn with the test for a transaction that is present left
\* out
apply_remote_txn_again(rep, txn) ==
    IF \E id \in TxnNeeds(txn) : ~Known(rep.oplog, id)
    THEN [rep |-> rep, res |-> "DataMissing"]
    ELSE [rep |-> IF txn.tag = "Ins" THEN ApplyInsert(rep, txn)
                  ELSE ApplyDelete(rep, txn),
          res |-> "Ok"]

\* apply_remote_txn (4.2): a transaction whose whole (agent, seq) range is
\* present is a no-op, one that is present in part is an error, one whose
\* parents are not present is refused with DataMissing; else it gets the
\* next LVs and is integrated
apply_remote_txn(rep, txn) ==
    IF \A id \in TxnIds(txn) : Known(rep.oplog, id)
    THEN [rep |-> rep, res |-> "Ok"]
    ELSE IF \E id \in TxnIds(txn) : Known(rep.oplog, id)
    THEN [rep |-> rep, res |-> "Overlap"]
    ELSE IF \E id \in TxnNeeds(txn) : ~Known(rep.oplog, id)
    THEN [rep |-> rep, res |-> "DataMissing"]
    ELSE [rep |-> IF txn.tag = "Ins" THEN ApplyInsert(rep, txn)
                  ELSE ApplyDelete(rep, txn),
          res |-> "Ok"]

(***************************************************************************)
(* The replicas' driver: an agent edits its own replica at a content       *)
(* position (4.6), which makes a transaction; any replica may be handed    *)
(* any transaction made so far, or the first character of one, in any      *)
(* order and any number of times.                                          *)
(***************************************************************************)
\* Bounds of the driver
MaxTxns == 3
MaxRun == 2

NoReplicas == [r \in Replicas |-> ReplicaNew]

NoTxn == [agent |-> <<>>, seq_start |-> 0, parents |-> {}, tag |-> "none",
          left_origin |-> ROOT_ID, right_origin |-> ROOT_ID, content |-> <<>>,
          target |-> ROOT_ID]

NoApply == [at |-> <<>>, txn |-> NoTxn, before |-> ReplicaNew, res |-> "none"]

\* the character an agent types as its seq-th: no two are the same
Letter(name, seq) == name[1] + Cardinality(Replicas) * seq

TextOf(name, seq, len) == [k \in 1..len |-> Letter(name, seq + k - 1)]

\* 4.6: the span position of the cursor at a content position: after the
\* pos-th live character, 0 at the start
CursorAt(items, pos) ==
    IF pos = 0 THEN 0
    ELSE CHOOSE i \in 1..Len(items) :
             items[i].live /\ ContentBefore(items, i) = pos - 1

\* 4.6: the origins of an insertion at a content position: the entries on
\* the two sides of the cursor
OriginsAt(items, pos) ==
    [left_origin |-> IF CursorAt(items, pos) = 0 THEN ROOT_ID
                     ELSE items[CursorAt(items, pos)].id,
     right_origin |-> IF CursorAt(items, pos) = Len(items) THEN ROOT_ID
                      ELSE items[CursorAt(items, pos) + 1].id]

\* Branch::insert as a transaction of the replica's agent
InsertTxnAt(rep, name, pos, len) ==
    [agent |-> name, seq_start |-> NextSeqOf(rep.oplog, name),
     parents |-> RemoteFrontier(rep.oplog, rep.oplog.frontier),
     tag |-> "Ins",
     left_origin |-> OriginsAt(rep.items, pos).left_origin,
     right_origin |-> OriginsAt(rep.items, pos).right_origin,
     content |-> TextOf(name, NextSeqOf(rep.oplog, name), len),
     target |-> ROOT_ID]

\* Branch::delete of the character at a content position
DeleteTxnAt(rep, name, pos) ==
    [agent |-> name, seq_start |-> NextSeqOf(rep.oplog, name),
     parents |-> RemoteFrontier(rep.oplog, rep.oplog.frontier),
     tag |-> "Del",
     left_origin |-> ROOT_ID, right_origin |-> ROOT_ID, content |-> <<>>,
     target |-> rep.items[CursorAt(rep.items, pos + 1)].id]

\* a transaction, and the first character of an insertion of more
Pieces(txns) ==
    txns \cup {[t EXCEPT !.content = <<t.content[1]>>] :
                  t \in {x \in txns : TxnLen(x) > 1}}

LocalInsert ==
    /\ Cardinality(net) < MaxTxns
    /\ \E r \in Replicas, len \in 1..MaxRun :
       \E pos \in 0..Len(ContentOf(reps[r].items)) :
          /\ reps' = [reps EXCEPT
                        ![r] = apply_remote_txn(@, InsertTxnAt(reps[r], r, pos, len)).rep]
          /\ net' = net \cup {InsertTxnAt(reps[r], r, pos, len)}
    /\ rlast' = NoApply
    /\ UNCHANGED <<mt_vars, diff_vars, codec_vars, branch_vars, fn_vars>>

LocalDelete ==
    /\ Cardinality(net) < MaxTxns
    /\ \E r \in Replicas :
       \E pos \in 0..(Len(ContentOf(reps[r].items)) - 1) :
          /\ reps' = [reps EXCEPT
                        ![r] = apply_remote_txn(@, DeleteTxnAt(reps[r], r, pos)).rep]
          /\ net' = net \cup {DeleteTxnAt(reps[r], r, pos)}
    /\ rlast' = NoApply
    /\ UNCHANGED <<mt_vars, diff_vars, codec_vars, branch_vars, fn_vars>>

Deliver ==
    /\ \E r \in Replicas, txn \in Pieces(net) :
          /\ reps' = [reps EXCEPT ![r] = apply_remote_txn(@, txn).rep]
          /\ rlast' = [at |-> r, txn |-> txn, before |-> reps[r],
                       res |-> apply_remote_txn(reps[r], txn).res]
    /\ UNCHANGED <<net, mt_vars, diff_vars, codec_vars, branch_vars, fn_vars>>

WasPresent ==
    /\ rlast # NoApply
    /\ TxnIds(rlast.txn) \subseteq KnownIds(rlast.before.oplog)

FirstInserts(name) ==
    {t \in net : /\ t.agent = name /\ t.tag = "Ins" /\ t.parents = {}
                 /\ t.left_origin = ROOT_ID /\ t.right_origin = ROOT_ID}

\* C12 (Concurrent sibling order): when agents a < b each insert at
\* position 0 of the empty document with parents ROOT, a replica that holds
\* the two operations and no other, whichever came first, has a's text
\* followed by b's text.
SiblingOrder ==
    \A ta \in FirstInserts(AgentA), tb \in FirstInserts(AgentB), r \in Replicas :
        KnownIds(reps[r].oplog) = TxnIds(ta) \cup TxnIds(tb)
            => ContentOf(reps[r].items) = ta.content \o tb.content

\* both replicas hold the two insertions, of more than one character each,
\* and the last to arrive was a's at b's replica
SiblingWitness ==
    /\ \E ta \in FirstInserts(AgentA), tb \in FirstInserts(AgentB) :
          /\ TxnLen(ta) > 1 /\ TxnLen(tb) > 1
          /\ \A r \in Replicas :
                KnownIds(reps[r].oplog) = TxnIds(ta) \cup TxnIds(tb)
          /\ rlast.txn = ta
    /\ rlast.at = AgentB /\ rlast.res = "Ok" /\ reps[AgentB] # rlast.before

(***************************************************************************)
(* PART 5. Branches over one OpLog (spec 4.6; Branch's code is not among   *)
(* the sources, its callers in git-reader and cli are, so this part        *)
(* follows the specification's text).                                      *)
(*                                                                         *)
(* doc is [oplog, items, txns]:                                            *)
(*   oplog : the OpLog of PART 2                                           *)
(*   items : the RangeTree's entries in span order, as in PART 4           *)
(*   txns  : the operation of each LV as a transaction of one character,   *)
(*           txns[lv + 1]                                                  *)
(* A Branch is [frontier, content]; a version is the set of the LVs a      *)
(* frontier has.                                                           *)
(***************************************************************************)
Branches == {1, 2}

DocNew == [oplog |-> OpLogNew, items |-> <<>>, txns |-> <<>>]

\* Branch::new(): the branch at ROOT
BranchNew == [frontier |-> RootFrontier, content |-> <<>>]

NoBranches == [b \in Branches |-> BranchNew]

NoCall == [op |-> "none", on |-> 0, n |-> 0]

\* the version of a frontier
VersionOf(d, f) == Ancestors(d.oplog.history, f)

\* the frontier of a set of LVs: those that precede no other
FrontierOf(d, S) ==
    IF S = {} THEN RootFrontier
    ELSE SortedSeq({x \in S : \A y \in S : y = x \/ x \notin VersionOf(d, <<y>>)})

\* the entry is in the content of the version: the version has its
\* insertion and no deletion of it
Visible(d, V, e) ==
    /\ KnownTime(d.oplog, e.id) \in V
    /\ \A lv \in V : d.txns[lv + 1].tag = "Del" => d.txns[lv + 1].target # e.id

\* the content position of span position i in the version
ViewBefore(d, V, i) ==
    Cardinality({j \in 1..(i - 1) : Visible(d, V, d.items[j])})

\* the content position of the entry of that id in the version
ViewPos(d, V, id) == ViewBefore(d, V, SpanPos(d.items, id))

\* the rope with x put at position pos (from 0)
RopeInsert(s, pos, x) == SubSeq(s, 1, pos) \o <<x>> \o SubSeq(s, pos + 1, Len(s))

\* the rope without the character at position pos (from 0)
RopeRemove(s, pos) == SubSeq(s, 1, pos) \o SubSeq(s, pos + 2, Len(s))

\* checkout, rewinding one operation of only_a: an insertion becomes a
\* deletion on the rope, a deletion restores the character unless the
\* version has another deletion of it. c is [content, V].
RewindOne(d, c, lv) ==
    IF d.txns[lv + 1].tag = "Ins"
    THEN [content |-> RopeRemove(c.content,
                         ViewPos(d, c.V, <<d.txns[lv + 1].agent,
                                           d.txns[lv + 1].seq_start>>)),
          V |-> c.V \ {lv}]
    ELSE IF Visible(d, c.V \ {lv},
                    d.items[SpanPos(d.items, d.txns[lv + 1].target)])
    THEN [content |-> RopeInsert(c.content,
                         ViewPos(d, c.V \ {lv}, d.txns[lv + 1].target),
                         d.items[SpanPos(d.items, d.txns[lv + 1].target)].ch),
          V |-> c.V \ {lv}]
    ELSE [content |-> c.content, V |-> c.V \ {lv}]

\* checkout, applying one operation of only_b forward
ApplyOne(d, c, lv) ==
    IF d.txns[lv + 1].tag = "Ins"
    THEN [content |-> RopeInsert(c.content,
                         ViewPos(d, c.V \cup {lv}, <<d.txns[lv + 1].agent,
                                                     d.txns[lv + 1].seq_start>>),
                         d.txns[lv + 1].content[1]),
          V |-> c.V \cup {lv}]
    ELSE IF Visible(d, c.V, d.items[SpanPos(d.items, d.txns[lv + 1].target)])
    THEN [content |-> RopeRemove(c.content,
                         ViewPos(d, c.V, d.txns[lv + 1].target)),
          V |-> c.V \cup {lv}]
    ELSE [content |-> c.content, V |-> c.V \cup {lv}]

RECURSIVE RewindSpan(_, _, _, _)
\* the operations lv, lv - 1 .. lo rewound, the last first
RewindSpan(d, c, lo, lv) ==
    IF lv < lo THEN c ELSE RewindSpan(d, RewindOne(d, c, lv), lo, lv - 1)

RECURSIVE RewindAll(_, _, _, _)
\* the spans of only_a (highest first) rewound from span i on
RewindAll(d, c, list, i) ==
    IF i > Len(list) THEN c
    ELSE RewindAll(d, RewindSpan(d, c, list[i].start, list[i].end - 1), list, i + 1)

RECURSIVE ApplySpan(_, _, _, _)
\* the operations lv, lv + 1 .. hi - 1 applied
ApplySpan(d, c, lv, hi) ==
    IF lv >= hi THEN c ELSE ApplySpan(d, ApplyOne(d, c, lv), lv + 1, hi)

RECURSIVE ApplyAll(_, _, _, _)
\* the spans of only_b (highest first) applied forward, from span i down
ApplyAll(d, c, list, i) ==
    IF i < 1 THEN c
    ELSE ApplyAll(d, ApplySpan(d, c, list[i].start, list[i].end), list, i - 1)

\* checkout with the rewinding left out: only_b is applied to the rope as
\* it is
checkout_forward_only(d, br, target) ==
    [frontier |-> target,
     content |-> ApplyAll(d, [content |-> br.content, V |-> VersionOf(d, br.frontier)],
                     diff(d.oplog.history, br.frontier, target).only_b,
                     Len(diff(d.oplog.history, br.frontier, target).only_b)).content]

\* checkout (4.6): diff(current, target), only_a rewound in reverse, only_b
\* applied forward
checkout(d, br, target) ==
    [frontier |-> target,
     content |-> ApplyAll(d,
                     RewindAll(d, [content |-> br.content,
                                   V |-> VersionOf(d, br.frontier)],
                         diff(d.oplog.history, br.frontier, target).only_a, 1),
                     diff(d.oplog.history, br.frontier, target).only_b,
                     Len(diff(d.oplog.history, br.frontier, target).only_b)).content]

\* Branch::branch_merge(oplog, frontier): the branch moves to the frontier of its
\* version and the other
branch_merge(d, br, f) ==
    checkout(d, br, FrontierOf(d, (SeqToSet(br.frontier) \cup SeqToSet(f)) \ {ROOT_TIME}))

\* 4.6: the span position of the branch's cursor at a content position:
\* the pos-th entry of its content, 0 at the start
ViewCursor(d, V, pos) ==
    IF pos = 0 THEN 0
    ELSE CHOOSE i \in 1..Len(d.items) :
             Visible(d, V, d.items[i]) /\ ViewBefore(d, V, i) = pos - 1

\* the entries of the version after span position i, tombstones too
After(d, V, i) ==
    {j \in (i + 1)..Len(d.items) : KnownTime(d.oplog, d.items[j].id) \in V}

\* 4.6: the origins of an insertion at a content position of the branch:
\* the entries of its version on the two sides of the cursor
ViewOrigins(d, V, pos) ==
    [left_origin |-> IF ViewCursor(d, V, pos) = 0 THEN ROOT_ID
                     ELSE d.items[ViewCursor(d, V, pos)].id,
     right_origin |-> IF After(d, V, ViewCursor(d, V, pos)) = {} THEN ROOT_ID
                      ELSE d.items[CHOOSE j \in After(d, V, ViewCursor(d, V, pos)) :
                              \A k \in After(d, V, ViewCursor(d, V, pos)) : j <= k].id]

\* the transaction of one character typed at a content position of a branch
BranchInsertTxn(d, br, name, pos) ==
    [agent |-> name, seq_start |-> NextSeqOf(d.oplog, name),
     parents |-> RemoteFrontier(d.oplog, br.frontier),
     tag |-> "Ins",
     left_origin |-> ViewOrigins(d, VersionOf(d, br.frontier), pos).left_origin,
     right_origin |-> ViewOrigins(d, VersionOf(d, br.frontier), pos).right_origin,
     content |-> <<Letter(name, NextSeqOf(d.oplog, name))>>,
     target |-> ROOT_ID]

\* the transaction of the deletion of the character at a content position
BranchDeleteTxn(d, br, name, pos) ==
    [agent |-> name, seq_start |-> NextSeqOf(d.oplog, name),
     parents |-> RemoteFrontier(d.oplog, br.frontier),
     tag |-> "Del",
     left_origin |-> ROOT_ID, right_origin |-> ROOT_ID, content |-> <<>>,
     target |-> d.items[ViewCursor(d, VersionOf(d, br.frontier), pos + 1)].id]

\* the OpLog integrates a transaction whose parents are the frontier f
DocApply(d, f, txn, pos) ==
    [oplog |-> PushOpAt(d.oplog, txn.agent, txn.seq_start, f, txn.tag,
                   [start |-> pos, end |-> pos + 1, fwd |-> TRUE],
                   IF txn.tag = "Ins" THEN SomeContent(txn.content) ELSE NoContent),
     items |-> IF txn.tag = "Ins" THEN integrate(d.items, TxnEntry(txn, 0))
               ELSE [d.items EXCEPT ![SpanPos(d.items, txn.target)].live = FALSE],
     txns |-> Append(d.txns, txn)]

\* the branch after the OpLog (now d) has integrated its operation, the
\* last of d: the positional patch on the rope, the frontier advanced
BranchPatched(d, br) ==
    [frontier |-> <<Len(d.txns) - 1>>,
     content |-> ApplyOne(d, [content |-> br.content,
                              V |-> VersionOf(d, br.frontier)],
                    Len(d.txns) - 1).content]

\* Branch::insert of a character: [doc, br]
branch_insert(d, br, name, pos) ==
    [doc |-> DocApply(d, br.frontier, BranchInsertTxn(d, br, name, pos), pos),
     br |-> BranchPatched(DocApply(d, br.frontier,
                              BranchInsertTxn(d, br, name, pos), pos), br)]

\* Branch::delete of the character at pos: [doc, br]
branch_delete(d, br, name, pos) ==
    [doc |-> DocApply(d, br.frontier, BranchDeleteTxn(d, br, name, pos), pos),
     br |-> BranchPatched(DocApply(d, br.frontier,
                              BranchDeleteTxn(d, br, name, pos), pos), br)]

(***************************************************************************)
(* The branches' driver: git-reader's use of Branch. A branch is edited   *)
(* by its agent, a character at a time, merged with the frontier of        *)
(* another, checked out at a frontier of the OpLog, or replaced by a clone *)
(* of another.                                                             *)
(***************************************************************************)
\* Bounds of the driver: the operations of the OpLog, and the merge,
\* checkout and clone calls
MaxDocOps == 4
MaxMoves == 2

\* the agent that edits the branch
AgentOf(b) == IF b = 1 THEN AgentA ELSE AgentB

\* Branch::insert on a rope that the clones of the branch share
BranchInsertShared ==
    /\ Len(doc.txns) < MaxDocOps
    /\ \E b \in Branches : \E pos \in 0..Len(brs[b].content) :
          /\ doc' = branch_insert(doc, brs[b], AgentOf(b), pos).doc
          /\ brs' = [x \in Branches |->
                        IF brs[x] = brs[b]
                        THEN branch_insert(doc, brs[b], AgentOf(b), pos).br
                        ELSE brs[x]]
          /\ blast' = [op |-> "insert", on |-> b, n |-> blast.n]
    /\ UNCHANGED <<mt_vars, diff_vars, codec_vars, crdt_vars, fn_vars>>

BranchInsert ==
    /\ Len(doc.txns) < MaxDocOps
    /\ \E b \in Branches : \E pos \in 0..Len(brs[b].content) :
          /\ doc' = branch_insert(doc, brs[b], AgentOf(b), pos).doc
          /\ brs' = [brs EXCEPT ![b] = branch_insert(doc, brs[b], AgentOf(b), pos).br]
          /\ blast' = [op |-> "insert", on |-> b, n |-> blast.n]
    /\ UNCHANGED <<mt_vars, diff_vars, codec_vars, crdt_vars, fn_vars>>

BranchDelete ==
    /\ Len(doc.txns) < MaxDocOps
    /\ \E b \in Branches : \E pos \in 0..(Len(brs[b].content) - 1) :
          /\ doc' = branch_delete(doc, brs[b], AgentOf(b), pos).doc
          /\ brs' = [brs EXCEPT ![b] = branch_delete(doc, brs[b], AgentOf(b), pos).br]
          /\ blast' = [op |-> "delete", on |-> b, n |-> blast.n]
    /\ UNCHANGED <<mt_vars, diff_vars, codec_vars, crdt_vars, fn_vars>>

BranchMerge ==
    /\ blast.n < MaxMoves
    /\ \E b \in Branches, other \in Branches :
          /\ b # other
          /\ brs' = [brs EXCEPT ![b] = branch_merge(doc, @, brs[other].frontier)]
          /\ blast' = [op |-> "merge", on |-> b, n |-> blast.n + 1]
    /\ UNCHANGED <<doc, mt_vars, diff_vars, codec_vars, crdt_vars, fn_vars>>

BranchCheckout ==
    /\ blast.n < MaxMoves
    /\ \E b \in Branches, f \in Frontiers(doc.oplog) :
          /\ brs' = [brs EXCEPT ![b] = checkout(doc, @, f)]
          /\ blast' = [op |-> "checkout", on |-> b, n |-> blast.n + 1]
    /\ UNCHANGED <<doc, mt_vars, diff_vars, codec_vars, crdt_vars, fn_vars>>

BranchClone ==
    /\ blast.n < MaxMoves
    /\ \E b \in Branches, other \in Branches :
          /\ b # other
          /\ brs' = [brs EXCEPT ![b] = brs[other]]
          /\ blast' = [op |-> "clone", on |-> b, n |-> blast.n + 1]
    /\ UNCHANGED <<doc, mt_vars, diff_vars, codec_vars, crdt_vars, fn_vars>>

(***************************************************************************)
(* Claims about the branches                                               *)
(***************************************************************************)
RECURSIVE FreshFrom(_, _, _, _)
\* a fresh OpLog built from the operations of the version, in LV order
FreshFrom(d, V, rep, lv) ==
    IF lv >= Len(d.txns) THEN rep
    ELSE FreshFrom(d, V, IF lv \in V THEN apply_remote_txn(rep, d.txns[lv + 1]).rep
                         ELSE rep, lv + 1)

\* the content of the fresh OpLog's tip
FreshContent(d, f) == ContentOf(FreshFrom(d, VersionOf(d, f), ReplicaNew, 0).items)

BranchIndependence ==
    [][\A b \in Branches :
          b # blast'.on =>
              /\ brs'[b] = brs[b]
              /\ checkout(doc', BranchNew, brs[b].frontier).content = brs[b].content]_vars

\* a branch and its clone: one of them has just deleted a character that the
\* other, which is not at ROOT, still has
IndependenceWitness ==
    /\ blast.op = "delete" /\ blast.n > 0
    /\ \E b \in Branches :
          /\ b # blast.on
          /\ brs[b].frontier # RootFrontier
          /\ Len(brs[b].content) > Len(brs[blast.on].content)
          /\ brs[b].frontier[1] \in VersionOf(doc, brs[blast.on].frontier)

(***************************************************************************)
(* Further claims about the container                                      *)
(***************************************************************************)
\* the file at hand has just been given to merge_data, and the frontier it
\* starts from names an (agent, seq) that the OpLog did not hold
StartMissing ==
    /\ file # NoFile /\ file.used > 0
    /\ \E id \in file.start : ~Known(peer.before, id)

\* C15 (Missing data): merge_data of a file whose StartBranch frontier names
\* an (agent, seq) that the OpLog it is merged into does not contain returns
\* the error DataMissing.
MissingDataRefused == StartMissing => peer.res = "DataMissing"

\* the file at hand has just been read by load_from, after the byte right
\* before its CRC chunk was changed
FlippedBeforeCrc ==
    /\ JustLoaded /\ file.flips = 1 /\ ~file.stripped
    /\ file.at = Len(file.data) - Len(WriteChunk(Chunk.CRC, CrcOnes))

\* C16 (Checksum error kind): load_from of an encoded file whose byte right
\* before the CRC chunk was altered, the CRC chunk being intact, returns the
\* error ChecksumFailed.
ChecksumErrorKind == FlippedBeforeCrc => peer.res = "ChecksumFailed"

\* the same, for a change that leaves the file's chunks readable
ChecksumFailedReached == FlippedBeforeCrc /\ peer.res = "ChecksumFailed"

\* the operation of one LV of a run: its tag and its position
OpUnit(op, lv) ==
    [tag |-> op.tag,
     pos |-> IF op.tag = "Ins" THEN op.start + (lv - op.time)
             ELSE IF op.fwd THEN op.start
             ELSE op.end - 1 - (lv - op.time)]

\* the (LV, operation) pairs of the operation list
OpUnits(o) ==
    UNION {{<<lv, OpUnit(o.operations[i], lv)>> :
               lv \in o.operations[i].time ..
                      (o.operations[i].time + OpLenOf(o.operations[i]) - 1)} :
           i \in 1..Len(o.operations)}

\* the (LV, parents) pairs of the history
ParentUnits(o) == {<<lv, ParentsOf(o.history, lv)>> : lv \in HistoryTimes(o)}

\* the three lists are in strictly increasing LV order
ListsAscend(o) ==
    /\ \A i \in 1..(Len(o.client_with_lv) - 1) :
          o.client_with_lv[i].time + o.client_with_lv[i].len
              <= o.client_with_lv[i + 1].time
    /\ \A i \in 1..(Len(o.operations) - 1) :
          o.operations[i].time + OpLenOf(o.operations[i]) <= o.operations[i + 1].time
    /\ \A i \in 1..(Len(o.history) - 1) : o.history[i].end <= o.history[i + 1].start

\* the pairs of a set that are about the LVs below n
Below(S, n) == {x \in S : x[1] < n}

\* the LVs from n on get the file's operations, in the file's order
InFileOrder(o, n, f) ==
    \A lv \in n..(OpLogLen(o) - 1) :
        \E u \in OpUnits(o), w \in OpUnits(f.of) :
            u[1] = lv /\ w[1] = f.first + (lv - n) /\ u[2] = w[2]

\* C18 (Append order): a merge_data that succeeds gives the file's
\* operations the LVs from the OpLog's previous len() on, contiguously and in
\* file order; the agent-assignment list, the operation list and the history
\* are each in strictly increasing LV order and cover those LVs; and the
\* (agent, seq), the operation and the parents of every LV below the
\* previous len() are as they were (the run that holds the last of them may
\* have grown).
AppendOrder ==
    (file # NoFile /\ file.used > 0 /\ peer.res = "Ok") =>
        /\ ListsAscend(peer.oplog)
        /\ {x[1] : x \in AssignedIds(peer.oplog)} = 0..(OpLogLen(peer.oplog) - 1)
        /\ {x[1] : x \in OpUnits(peer.oplog)} = 0..(OpLogLen(peer.oplog) - 1)
        /\ HistoryTimes(peer.oplog) = 0..(OpLogLen(peer.oplog) - 1)
        /\ Below(AssignedIds(peer.oplog), OpLogLen(peer.before))
              = AssignedIds(peer.before)
        /\ Below(OpUnits(peer.oplog), OpLogLen(peer.before)) = OpUnits(peer.before)
        /\ Below(ParentUnits(peer.oplog), OpLogLen(peer.before))
              = ParentUnits(peer.before)
        /\ OpLogLen(peer.oplog) - OpLogLen(peer.before)
              = OpLogLen(file.of) - file.first
        /\ InFileOrder(peer.oplog, OpLogLen(peer.before), file)

\* a file of two runs of operations or more was merged into a peer that held
\* operations, and the first of its operations went into the peer's last run
AppendWitness ==
    /\ file # NoFile /\ file.used > 0 /\ peer.res = "Ok" /\ peer.n = 2
    /\ OpLogLen(peer.before) > 0
    /\ OpLogLen(peer.oplog) > OpLogLen(peer.before) + 1
    /\ Len(peer.oplog.operations) > Len(peer.before.operations)
    /\ peer.oplog.operations[Len(peer.before.operations)]
          # peer.before.operations[Len(peer.before.operations)]

\* C19 (Decoding is total): load_from of any byte string returns Ok or a
\* ParseError; it does not panic and does not read past the end of the
\* buffer.
DecodingTotal == JustLoaded => peer.res # "panic"

(***************************************************************************)
(* Iteration over a range of LVs (list/op_iter.rs)                         *)
(***************************************************************************)
\* RleVec::find_index: the index of the entry that holds LV t, if one does
find_index(list, t) ==
    IF \E i \in 1..Len(list) :
          list[i].time <= t /\ t < list[i].time + OpLenOf(list[i])
    THEN [ok |-> TRUE,
          idx |-> (CHOOSE i \in 1..Len(list) :
                      list[i].time <= t /\ t < list[i].time + OpLenOf(list[i])) - 1]
    ELSE [ok |-> FALSE, idx |-> 0]

\* OperationInternal::truncate: the operation keeps its first at LVs; a
\* backward delete's first LVs are its last positions
truncate(c, at) ==
    [c EXCEPT !.start = IF c.tag = "Del" /\ ~c.fwd THEN c.end - at ELSE @,
              !.end = IF c.tag = "Del" /\ ~c.fwd THEN @ ELSE c.start + at,
              !.cpos = IF @ = <<>> THEN @ ELSE <<@[1], @[1] + at>>]

\* truncate_keeping_right that moves the positions of no operation
TruncateKeepingStart(c, at) ==
    [c EXCEPT !.end = @ - at,
              !.cpos = IF @ = <<>> THEN @ ELSE <<@[1] + at, @[2]>>]

\* OperationInternal::truncate_keeping_right: the operation loses its first
\* at LVs; what is left of a delete starts where the delete started
truncate_keeping_right(c, at) ==
    [c EXCEPT !.start = IF c.tag = "Ins" THEN @ + at ELSE @,
              !.end = IF c.tag = "Ins" THEN @ ELSE @ - at,
              !.cpos = IF @ = <<>> THEN @ ELSE <<@[1] + at, @[2]>>]

\* the two truncations of OpMetricsIter::next, and the key of what is left
NextItem(c, range) ==
    With(IF c.time + OpLenOf(c) > range.end
         THEN truncate(c, range.end - c.time) ELSE c, LAMBDA c1 :
        IF c1.time < range.start
        THEN [truncate_keeping_right(c1, range.start - c1.time)
                 EXCEPT !.time = range.start]
        ELSE c1)

\* OpMetricsIter::prime
prime(it, range) ==
    IF range.start >= range.end
    THEN [it EXCEPT !.range = range, !.idx = 0]
    ELSE With(find_index(it.list, range.start), LAMBDA f :
            IF f.ok THEN [it EXCEPT !.range = range, !.idx = f.idx]
            ELSE [it EXCEPT !.range = range, !.res = "panic"])

\* OpMetricsIter::new
OpMetricsIter(list, range) ==
    prime([list |-> list, idx |-> 0, range |-> range, res |-> "Ok"], range)

\* OpMetricsIter::next
next(it) ==
    IF it.idx >= Len(it.list) THEN [some |-> FALSE, it |-> it]
    ELSE IF it.list[it.idx + 1].time >= it.range.end
    THEN [some |-> FALSE, it |-> it]
    ELSE [some |-> TRUE,
          item |-> NextItem(it.list[it.idx + 1], it.range),
          it |-> [it EXCEPT !.idx = @ + 1]]

RECURSIVE Drain(_)
\* what the iterator yields until it ends
Drain(it) ==
    With(next(it), LAMBDA n :
        IF n.some THEN <<n.item>> \o Drain(n.it) ELSE <<>>)

\* OpLog::iter_metrics_range, run to its end
iter_metrics_range(o, range) ==
    With(OpMetricsIter(o.operations, range), LAMBDA it :
        IF it.res = "panic" THEN [res |-> "panic", items |-> <<>>]
        ELSE [res |-> "Ok", items |-> Drain(it)])

\* a stored LV's position and the place of its content
StoredUnit(op, lv) ==
    [tag |-> op.tag, pos |-> OpUnit(op, lv).pos,
     content |-> IF op.cpos = <<>> THEN -1 ELSE op.cpos[1] + (lv - op.time)]

\* the (LV, unit) pairs of a list of operations
UnitsOf(list) ==
    UNION {{<<lv, StoredUnit(list[i], lv)>> :
               lv \in list[i].time .. (list[i].time + OpLenOf(list[i]) - 1)} :
           i \in 1..Len(list)}

\* the ranges asked for, some of them reaching past the end of the log
IterRanges ==
    {r \in [start : 0..(MaxCodecTime + 1), end : 0..(MaxCodecTime + 1)] :
        r.start <= r.end}

\* what the claim asks of the items yielded for range r
RangeYields(o, r, out) ==
    /\ out.res = "Ok"
    /\ \A i \in 1..Len(out.items) :
          /\ r.start <= out.items[i].time
          /\ out.items[i].time + OpLenOf(out.items[i]) <= r.end
          /\ out.items[i].cpos # <<>> =>
                out.items[i].cpos[2] - out.items[i].cpos[1] = OpLenOf(out.items[i])
    /\ \A i \in 1..(Len(out.items) - 1) :
          out.items[i].time + OpLenOf(out.items[i]) = out.items[i + 1].time
    /\ {u[1] : u \in UnitsOf(out.items)}
          = {lv \in 0..(OpLogLen(o) - 1) : r.start <= lv /\ lv < r.end}
    /\ UnitsOf(out.items) \subseteq UnitsOf(o.operations)

\* the ranges that start inside the log, and the empty range at 0
StartsInside(o, r) == r.start < Min(r.end, OpLogLen(o)) \/ r.end = 0

\* the claim holds of the ranges that start inside the log
RangeIterationInside ==
    \A r \in IterRanges :
        StartsInside(wlog, r) => RangeYields(wlog, r, iter_metrics_range(wlog, r))

\* C20 (Range iteration): iterating the operations over an LV range r yields
\* them in ascending LV order, with contiguous LV spans that lie inside r and
\* together cover exactly r /\ [0, len); an operation that straddles a
\* boundary of r is truncated, its LV key, its positions and its content_pos
\* being those of the LVs that are left.
RangeIteration ==
    \A r \in IterRanges : RangeYields(wlog, r, iter_metrics_range(wlog, r))

(***************************************************************************)
(* Functions on their own. Character offsets (src/src/unicount.rs)         *)
(***************************************************************************)
\* no call has been made
NoFn == [fn |-> "none"]

\* usize::MAX, held as the largest number at hand
USIZE_MAX == ROOT_TIME

\* codepoint_size (8-20)
codepoint_size(b) ==
    IF b = 0 THEN USIZE_MAX
    ELSE IF b <= 127 THEN 1
    ELSE IF b <= 191 THEN USIZE_MAX
    ELSE IF b <= 223 THEN 2
    ELSE IF b <= 239 THEN 3
    ELSE IF b <= 247 THEN 4
    ELSE IF b <= 251 THEN 5
    ELSE IF b <= 253 THEN 6
    ELSE USIZE_MAX

\* num_bytes += size on a usize: past usize::MAX a debug build aborts and a
\* release build wraps
UsizeAdd(num_bytes, size, release) ==
    IF size < USIZE_MAX THEN [res |-> "Ok", val |-> num_bytes + size]
    ELSE IF num_bytes = 0 THEN [res |-> "Ok", val |-> USIZE_MAX]
    ELSE IF release THEN [res |-> "Ok", val |-> num_bytes - 1]
    ELSE [res |-> "panic", val |-> 0]

RECURSIVE SmolLoop(_, _, _, _)
\* the loop of str_pos_to_bytes_smol (29-32), left more turns to go
SmolLoop(bytes, num_bytes, left, release) ==
    IF left = 0 THEN [res |-> "Ok", val |-> num_bytes]
    ELSE IF ~(num_bytes < Len(bytes)) THEN [res |-> "panic", val |-> 0]
    ELSE With(UsizeAdd(num_bytes, codepoint_size(bytes[num_bytes + 1]), release),
              LAMBDA n :
                 IF n.res = "panic" THEN n
                 ELSE SmolLoop(bytes, n.val, left - 1, release))

\* str_pos_to_bytes_smol (25-34)
str_pos_to_bytes_smol(s, char_pos, release) == SmolLoop(s, 0, char_pos, release)

\* the places of the bytes of s that start a character
CharStarts(s) == {i \in 1..Len(s) : s[i] < 128 \/ s[i] >= 192}

\* ropey::str_utils::char_to_byte_idx: the bytes before the character
\* char_idx, all of them when there is no such character
char_to_byte_idx(s, char_idx) ==
    IF char_idx >= Cardinality(CharStarts(s)) THEN Len(s)
    ELSE (CHOOSE i \in CharStarts(s) :
             Cardinality({j \in CharStarts(s) : j < i}) = char_idx) - 1

\* str_pos_to_bytes (36-40)
str_pos_to_bytes(s, char_pos) == char_to_byte_idx(s, char_pos)

\* test::slow_lib_version (53-58): s.char_indices().nth(char_pos), or s.len()
slow_lib_version(s, char_pos) == CharsToBytes(s, char_pos, 0)

\* s.chars().count()
CharCount(s) == Cardinality(CharStarts(s))

\* the characters the strings are made of: U+0000, a, (c), a left arrow and
\* a character of four bytes
TrickyChars == {<<0>>, <<97>>, <<194, 169>>, <<226, 134, 144>>, <<240, 144, 134, 144>>}

\* the strings have up to MaxChars characters
MaxChars == 3

RECURSIVE StringsOf(_)
StringsOf(n) ==
    IF n = 0 THEN {<<>>}
    ELSE StringsOf(n - 1) \cup {s \o c : s \in StringsOf(n - 1), c \in TrickyChars}

\* a string is chosen
UniInit(s) == fcall = [fn |-> "none", s |-> s] /\ fret = NoFn

\* check_matches (68-78): one turn of its loop, in a build of either kind
StrPos ==
    /\ \E char_pos \in 0..CharCount(fcall.s), release \in BOOLEAN :
          /\ fcall' = [fn |-> "str_pos", s |-> fcall.s, char_pos |-> char_pos,
                       release |-> release]
          /\ fret' = [actual |-> str_pos_to_bytes_smol(fcall.s, char_pos, release),
                      expected |-> slow_lib_version(fcall.s, char_pos),
                      ropey |-> str_pos_to_bytes(fcall.s, char_pos)]
    /\ UNCHANGED <<mt_vars, diff_vars, codec_vars, crdt_vars, branch_vars>>

\* both asserts of check_matches hold of the last call
Matches ==
    /\ fret.actual = [res |-> "Ok", val |-> fret.expected]
    /\ fret.ropey = fret.expected

\* the claim holds of the strings without U+0000
CharacterOffsetsNoNul ==
    (fcall.fn = "str_pos" /\ \A i \in 1..Len(fcall.s) : fcall.s[i] # 0) => Matches

\* C21 (Character offsets): for every valid UTF-8 string s and every char_pos
\* in 0..=char_count(s), str_pos_to_bytes_smol(s, char_pos) is the byte
\* offset of the char_pos-th character (s.len() at the end) and equals
\* str_pos_to_bytes(s, char_pos).
CharacterOffsets == fcall.fn = "str_pos" => Matches

(***************************************************************************)
(* PositionRun (list/time/positionmap.rs)                                  *)
(***************************************************************************)
\* PositionRun::new_void
new_void(len) == [tag |-> "NotInsertedYet", final_len |-> len, content_len |-> 0]

\* PositionRun::new_ins
new_ins(len) == [tag |-> "Inserted", final_len |-> len, content_len |-> len]

\* PositionRun::new_upstream
new_upstream(final_len, content_len) ==
    [tag |-> "Upstream", final_len |-> final_len, content_len |-> content_len]

\* truncate that leaves the content_len of the first part as it was
RunTruncateKeepsContent(self, at) ==
    IF self.tag = "Upstream" THEN [res |-> "panic", self |-> self, rest |-> self]
    ELSE [res |-> "Ok",
          self |-> [self EXCEPT !.final_len = at],
          rest |-> [tag |-> self.tag, final_len |-> self.final_len - at,
                    content_len |-> IF self.tag = "Inserted"
                                    THEN self.final_len - at ELSE 0]]

\* SplitableSpan::truncate for PositionRun (67-83): what is left in self and
\* the remainder returned
run_truncate(self, at) ==
    IF self.tag = "Upstream" THEN [res |-> "panic", self |-> self, rest |-> self]
    ELSE [res |-> "Ok",
          self |-> [self EXCEPT !.final_len = at,
                                !.content_len = IF self.tag = "Inserted" THEN at ELSE @],
          rest |-> [tag |-> self.tag, final_len |-> self.final_len - at,
                    content_len |-> IF self.tag = "Inserted"
                                    THEN self.final_len - at ELSE 0]]

\* SplitableSpan::can_append (85-87)
run_can_append(self, other) == self.tag = other.tag

\* SplitableSpan::append (89-92)
run_append(self, other) ==
    [self EXCEPT !.final_len = @ + other.final_len,
                 !.content_len = @ + other.content_len]

\* the runs are up to MaxFinalLen long
MaxFinalLen == 8

\* the runs the constructors make
NewRuns ==
    {new_void(len) : len \in 1..MaxFinalLen}
        \cup {new_ins(len) : len \in 1..MaxFinalLen}
        \cup {new_upstream(len, 0) : len \in 1..MaxFinalLen}
        \cup {new_upstream(len, len) : len \in 1..MaxFinalLen}

\* a run is made
RunInit(run) == fcall = [fn |-> "new", run |-> run, at |-> 0] /\ fret = NoFn

\* the run at hand: the one made, a part left by truncate, or the one
\* append made
RunsAtHand ==
    IF fcall.fn = "new" THEN {fcall.run}
    ELSE IF fcall.fn = "append" THEN {fret.self}
    ELSE IF fret.res = "Ok" THEN {fret.self, fret.rest}
    ELSE {fcall.run}

\* truncate(at) on a run at hand
RunTruncate ==
    /\ \E run \in RunsAtHand : \E at \in 1..(run.final_len - 1) :
          /\ fcall' = [fn |-> "truncate", run |-> run, at |-> at]
          /\ fret' = run_truncate(run, at)
    /\ UNCHANGED <<mt_vars, diff_vars, codec_vars, crdt_vars, branch_vars>>

\* the remainder of the last truncate is appended to its first part
RunAppend ==
    /\ fcall.fn = "truncate"
    /\ fret.res = "Ok"
    /\ run_can_append(fret.self, fret.rest)
    /\ fcall' = [fcall EXCEPT !.fn = "append"]
    /\ fret' = [fret EXCEPT !.self = run_append(fret.self, fret.rest)]
    /\ UNCHANGED <<mt_vars, diff_vars, codec_vars, crdt_vars, branch_vars>>

\* C22 (PositionRun splitting): for a run tagged NotInsertedYet or Inserted
\* and 0 < at < len, truncate(at) leaves a first part of final_len at and
\* returns a remainder of final_len len - at with the same tag, the two
\* content_len values sum to the original content_len, and appending the
\* remainder to the first part restores the original run.
RunSplitting ==
    /\ (fcall.fn = "truncate" /\ fcall.run.tag # "Upstream") =>
          /\ fret.res = "Ok"
          /\ fret.self.final_len = fcall.at
          /\ fret.rest.final_len = fcall.run.final_len - fcall.at
          /\ fret.rest.tag = fcall.run.tag
          /\ fret.self.content_len + fret.rest.content_len = fcall.run.content_len
          /\ run_can_append(fret.self, fret.rest)
          /\ run_append(fret.self, fret.rest) = fcall.run
    /\ fcall.fn = "append" => fret.self = fcall.run

\* an Inserted run that a truncate has left is split again, both parts
\* longer than one, and put together
RunSplittingWitness ==
    /\ fcall.fn = "append"
    /\ fcall.run.tag = "Inserted"
    /\ fcall.run.final_len < MaxFinalLen
    /\ fcall.at > 1
    /\ fret.rest.final_len > 1

(***************************************************************************)
(* ReadPatchesIter (list/encoding/decode_oplog.rs)                         *)
(***************************************************************************)
\* ReadPatchesIter::new (305-310)
ReadPatchesIterNew(buf, release) ==
    [fn |-> "patches", buf |-> buf, last_cursor_pos |-> 0, release |-> release]

\* the bytes the records are made of: first bytes with every combination of
\* the flags, which are also diffs in both directions, and a byte that
\* announces another
PatchBytes == {0, 2, 3, 4, 8, 16, 17, 19, 20, 21, 37, 39, 45, 47, 128}

MaxPatchBytes == 3

PatchBufs == UNION {[1..n -> PatchBytes] : n \in 1..MaxPatchBytes}

PatchesInit(buf, release) ==
    fcall = ReadPatchesIterNew(buf, release) /\ fret = NoFn

\* <ReadPatchesIter as Iterator>::next (365-370): nothing once the buffer is
\* empty, else the next record; the loop that drives the iterator leaves at
\* the first error (merge_data 482)
PatchNextItem ==
    /\ fcall.fn = "patches"
    /\ fcall.buf # <<>>
    /\ fret' = [fn |-> "next_internal", buf |-> fcall.buf,
                last_cursor_pos |-> fcall.last_cursor_pos,
                r |-> next_internal(fcall.buf, fcall.last_cursor_pos, fcall.release)]
    /\ fcall' = IF fret'.r.err = "none"
                THEN [fcall EXCEPT !.buf = fret'.r.buf,
                                   !.last_cursor_pos = fret'.r.val.last]
                ELSE [fcall EXCEPT !.buf = <<>>]
    /\ UNCHANGED <<mt_vars, diff_vars, codec_vars, crdt_vars, branch_vars>>

\* a record was read off the buffer
PatchRead == fret # NoFn /\ fret.fn = "next_internal" /\ fret.r.err = "none"

\* the first varint of the record read, and what follows it
FirstVarint == next_usize(fret.buf)

\* the flags in the low bits of the first varint
HasLength == FirstVarint.val % 2 = 1
DiffNotZero == (FirstVarint.val \div 2) % 2 = 1
IsDel == (FirstVarint.val \div 4) % 2 = 1

\* the diff of the record read: in the first varint of a record without a
\* length, else in the varint that follows when the flag says there is one
RecordDiff ==
    IF ~HasLength THEN num_decode_zigzag_isize(FirstVarint.val \div 8)
    ELSE IF DiffNotZero THEN next_zigzag_isize(FirstVarint.buf).val
    ELSE 0

\* the length of the record read
RecordLen ==
    IF ~HasLength THEN 1
    ELSE IF IsDel THEN FirstVarint.val \div 16
    ELSE FirstVarint.val \div 8

\* C28 (Positional patch cursor): ReadPatchesIter decodes each record to the
\* position span [s, s + len) with s = previous cursor + diff (cursor 0
\* before the first record); afterwards the cursor is s + len for an insert
\* and s for a delete; a record without the has_length flag has len 1, is
\* forward, and carries the zigzag diff in the first varint; an insert is
\* always forward.
PatchCursor ==
    /\ (fcall.fn = "patches" /\ fret = NoFn) => fcall.last_cursor_pos = 0
    /\ PatchRead =>
          /\ fret.r.val.start = fret.last_cursor_pos + RecordDiff
          /\ fret.r.val.end = fret.r.val.start + RecordLen
          /\ fret.r.val.tag = (IF IsDel THEN "Del" ELSE "Ins")
          /\ fcall.last_cursor_pos = (IF fret.r.val.tag = "Ins" THEN fret.r.val.end
                                      ELSE fret.r.val.start)
          /\ ~HasLength => (fret.r.val.end = fret.r.val.start + 1 /\ fret.r.val.fwd)
          /\ fret.r.val.tag = "Ins" => fret.r.val.fwd

\* a forward delete of two characters was read after an insert had moved the
\* cursor, and has left the cursor at its start
PatchCursorWitness ==
    /\ PatchRead
    /\ fret.last_cursor_pos > 0
    /\ fret.r.val.tag = "Del" /\ fret.r.val.fwd /\ HasLength
    /\ fret.r.val.end = fret.r.val.start + 2
    /\ fcall.last_cursor_pos = fret.r.val.start

(***************************************************************************)
(* Claims about what merge_data refuses                                    *)
(***************************************************************************)
\* the file at hand has been handed to merge_data
JustMerged == file # NoFile /\ file.used > 0 /\ peer.n > 0

\* merge_data returned e and added nothing to the OpLog
RefusedWith(e) == peer.res = e /\ peer.oplog = peer.before

\* the bytes of the file after the header
AfterMagic == consume(file.data, MagicLen)

\* C23 (Header errors): load_from returns UnexpectedEOF for input shorter
\* than 8 bytes, InvalidMagic when the leading bytes differ from the magic,
\* and UnsupportedProtocolVersion when the varint after the header is not 1;
\* each is decided before any agent, operation or history entry is added.
HeaderErrors ==
    JustMerged =>
        /\ Len(file.data) < MagicLen => RefusedWith("UnexpectedEOF")
        /\ (Len(file.data) >= MagicLen
              /\ SubSeq(file.data, 1, Len(MAGIC_BYTES)) # MAGIC_BYTES)
             => RefusedWith("InvalidMagic")
        /\ (Len(file.data) >= MagicLen
              /\ SubSeq(file.data, 1, Len(MAGIC_BYTES)) = MAGIC_BYTES
              /\ decode_usize(AfterMagic).ok
              /\ decode_usize(AfterMagic).val # PROTOCOL_VERSION)
             => RefusedWith("UnsupportedProtocolVersion")

\* a file whose second byte was changed has been refused for its magic
HeaderWitness ==
    /\ JustMerged /\ file.flips = 1 /\ file.at = Len(MAGIC_BYTES)
    /\ peer.res = "InvalidMagic"

\* a file cut inside its header, and a file of another version
HeaderCutReached == JustMerged /\ file.cut /\ file.at = MagicLen - 1 /\ peer.res = "UnexpectedEOF"
HeaderVersionReached ==
    JustMerged /\ file.flips = 1 /\ file.at = MagicLen + 1
        /\ peer.res = "UnsupportedProtocolVersion"

\* the file at hand was written with two chunks in each other's place and
\* has been handed to merge_data
SwappedMerged == JustMerged /\ file.swap # NoExtra

\* the chunks of a level of file f, in the order encode writes them
LevelChunks(f, level) ==
    IF level = "swap_top" THEN TopChunks(f.of, f.opts, f.first, NoExtra)
    ELSE IF level = "swap_fileinfo" THEN FileInfoChunks(f.of, f.opts)
    ELSE PatchChunks(f.of, f.opts, f.first)

\* the types of the chunks of a list
TypesOf(chunks) == [i \in 1..Len(chunks) |-> decode_usize(chunks[i]).val]

\* the order of the chunks of a level, the optional ones marked
LevelOrder(level) ==
    IF level = "swap_top"
    THEN <<[type |-> Chunk.FileInfo, optional |-> FALSE],
           [type |-> Chunk.StartBranch, optional |-> TRUE],
           [type |-> Chunk.Patches, optional |-> FALSE]>>
    ELSE IF level = "swap_fileinfo"
    THEN <<[type |-> Chunk.UserData, optional |-> TRUE],
           [type |-> Chunk.AgentNames, optional |-> FALSE]>>
    ELSE <<[type |-> Chunk.InsertedContent, optional |-> TRUE],
           [type |-> Chunk.DeletedContent, optional |-> TRUE],
           [type |-> Chunk.AgentAssignment, optional |-> FALSE],
           [type |-> Chunk.PositionalPatches, optional |-> FALSE],
           [type |-> Chunk.TimeDAG, optional |-> FALSE]>>

RECURSIVE Misplaced(_, _, _, _)
\* the first place where the types of a level leave the order: a chunk found
\* where a required one of another type is expected ("other"), the chunks
\* ending before a required one ("end"), chunks left over ("more"), or "none"
Misplaced(order, i, types, j) ==
    IF i > Len(order)
    THEN [kind |-> IF j > Len(types) THEN "none" ELSE "more", expected |-> 0, actual |-> 0]
    ELSE IF j <= Len(types) /\ order[i].type = types[j]
    THEN Misplaced(order, i + 1, types, j + 1)
    ELSE IF order[i].optional THEN Misplaced(order, i + 1, types, j)
    ELSE IF j > Len(types) THEN [kind |-> "end", expected |-> order[i].type, actual |-> 0]
    ELSE [kind |-> "other", expected |-> order[i].type, actual |-> types[j]]

\* where the file at hand leaves the order
SwapMisplaced ==
    Misplaced(LevelOrder(file.swap.level), 1,
              TypesOf(Swapped(LevelChunks(file, file.swap.level), file.swap.idx)), 1)

\* a chunk found where a required chunk of another type is expected is
\* reported as UnexpectedChunk, with both types
MisplacedReported ==
    (SwappedMerged /\ SwapMisplaced.kind = "other") =>
        /\ peer.res = "UnexpectedChunk"
        /\ peer.detail = [expected |-> SwapMisplaced.expected,
                          actual |-> SwapMisplaced.actual]
        /\ peer.oplog.history = peer.before.history

\* the positional patches in the place of the agent assignment are reported
MisplacedReached ==
    /\ SwappedMerged /\ peer.res = "UnexpectedChunk"
    /\ peer.detail = [expected |-> Chunk.AgentAssignment, actual |-> Chunk.PositionalPatches]

\* C24 (Chunk order): merge_data accepts chunks only in the order
\* FileInfo{[UserData], AgentNames}, [StartBranch{Frontier}],
\* Patches{[InsertedContent], [DeletedContent], AgentAssignment,
\* PositionalPatches, TimeDAG}, [CRC]; a known chunk found where a different
\* required chunk is expected yields UnexpectedChunk with the expected and
\* the actual type.
ChunkOrder ==
    /\ SwappedMerged => peer.res # "Ok"
    /\ MisplacedReported

AssignLengthReached ==
    /\ JustMerged /\ file.flips = 1 /\ peer.res = "InvalidLength"
    /\ peer.lens.patches >= 0 /\ peer.lens.assign # peer.lens.patches

\* the positional patches of the file at hand have all been read, and
\* characters are left in its InsertedContent chunk
ContentLeft == JustMerged /\ peer.lens.patches >= 0 /\ peer.ins_left > 0

\* C26 as claimed (Residual content): if the InsertedContent chunk still
\* holds characters after every positional patch has consumed its share,
\* merge_data returns InvalidContent.
ResidualContentAsClaimed == ContentLeft => peer.res = "InvalidContent"

\* C26 (Residual content), amended: if the InsertedContent chunk still holds
\* characters after every positional patch has consumed its share,
\* merge_data does not succeed: it returns InvalidLength when the agent
\* assignment and the patches differ in length, and InvalidContent otherwise.
ResidualContent ==
    ContentLeft =>
        peer.res = IF peer.lens.assign # peer.lens.patches
                   THEN "InvalidLength" ELSE "InvalidContent"

\* a changed byte leaves characters over while the lengths agree
ResidualContentWitness ==
    /\ ContentLeft /\ file.flips = 1
    /\ peer.lens.assign = peer.lens.patches
    /\ peer.res = "InvalidContent"

\* the history entries the last call has appended
AppendedEntries ==
    {peer.oplog.history[i] :
        i \in (Len(peer.before.history) + 1)..Len(peer.oplog.history)}

\* every parent of the entry is the root or comes before the entry
ParentsBefore(e) ==
    \A i \in 1..Len(e.parents) :
        e.parents[i] = ROOT_TIME \/ e.parents[i] < e.start

\* the claim holds of the files as encode has written them
ParentsPrecedeUntouched ==
    (JustMerged /\ Untouched(file) /\ file.extra = NoExtra) =>
        \A e \in AppendedEntries : ParentsBefore(e)

\* an entry whose parent is its own first LV
OwnStartReached ==
    /\ JustMerged
    /\ \E e \in AppendedEntries : \E i \in 1..Len(e.parents) : e.parents[i] = e.start

\* an entry whose parent is a value that went around below 0
WrappedReached ==
    /\ JustMerged
    /\ \E e \in AppendedEntries : \E i \in 1..Len(e.parents) :
          e.parents[i] # ROOT_TIME /\ e.parents[i] > OpLogLen(peer.oplog)

\* C29 (Parents precede their span): every history entry appended by
\* merge_data has a parent list in which each parent is either ROOT_TIME or
\* an LV strictly smaller than the entry's span.start (a local parent is
\* decoded as next_time - n and is never the entry's own start nor a
\* wrapped-around value).
ParentsPrecede ==
    JustMerged => \A e \in AppendedEntries : ParentsBefore(e)

(***************************************************************************)
(* Claims about the shape of the tree                                      *)
(***************************************************************************)
\* the ids of the leaves and of the internal nodes
Leaves == {id \in 1..Len(mt.nodes) : mt.nodes[id].kind = "leaf"}
Internals == {id \in 1..Len(mt.nodes) : mt.nodes[id].kind = "internal"}

\* the internal nodes and the places where they hold id as a child
HoldersOf(id) ==
    {<<p, i>> \in Internals \X (0..(MAX_CHILDREN - 1)) : mt.nodes[p].data[i].child = id}

\* C32 (Leaf packing): after any sequence of MarkerTree::insert calls, every
\* leaf holds its valid entries contiguously from index 0 with no gap, its
\* cached len equals the number of valid entries and never exceeds
\* NUM_ENTRIES, and a leaf whose parent is an internal node holds at least
\* one character.
LeafPacking ==
    /\ ~mt.panic
    /\ \A id \in Leaves :
          /\ DOMAIN mt.nodes[id].data = 0..(NUM_ENTRIES - 1)
          /\ mt.nodes[id].len \in 0..NUM_ENTRIES
          /\ \A i \in 0..(NUM_ENTRIES - 1) :
                (i < mt.nodes[id].len) <=> ~is_invalid(mt.nodes[id].data[i])
          /\ mt.nodes[id].parent # ROOT_PARENT =>
                \E i \in 0..(NUM_ENTRIES - 1) :
                    ~is_invalid(mt.nodes[id].data[i])
                    /\ get_text_len(mt.nodes[id].data[i]) > 0

\* the last insert split a leaf, and the tree has a full leaf and a leaf
\* that room was made in at its end
LeafPackingWitness ==
    /\ ~mt.panic /\ "leaf_split" \in mt.ev
    /\ \E id \in Leaves : mt.nodes[id].len = NUM_ENTRIES
    /\ \E id \in Leaves :
          mt.nodes[id].parent # ROOT_PARENT /\ mt.nodes[id].len \in 2..(NUM_ENTRIES - 1)

\* C33 (Parent pointers): after any sequence of MarkerTree::insert calls,
\* including those that split a full internal node or replace the root,
\* every node's parent pointer designates the node (or the tree root) that
\* holds it as a child, and no internal node holds more than MAX_CHILDREN
\* children.
ParentPointers ==
    /\ ~mt.panic
    /\ mt.root \in 1..Len(mt.nodes)
    /\ mt.nodes[mt.root].parent = ROOT_PARENT
    /\ HoldersOf(mt.root) = {}
    /\ \A id \in (1..Len(mt.nodes)) \ {mt.root} :
          /\ Cardinality(HoldersOf(id)) = 1
          /\ \A h \in HoldersOf(id) : mt.nodes[id].parent = h[1]
    /\ \A p \in Internals :
          /\ DOMAIN mt.nodes[p].data = 0..(MAX_CHILDREN - 1)
          /\ count_children(mt.nodes[p]) \in 1..MAX_CHILDREN
          /\ \A i \in 0..(MAX_CHILDREN - 1) :
                mt.nodes[p].data[i].child # 0 => i < count_children(mt.nodes[p])

\* the last insert split a full internal node below the root, whose halves
\* hold the children
ParentPointersWitness ==
    /\ ~mt.panic /\ "internal_split" \in mt.ev
    /\ \E p \in Internals :
          /\ mt.nodes[p].parent # ROOT_PARENT
          /\ \E i \in 0..(MAX_CHILDREN - 1) :
                /\ mt.nodes[p].data[i].child # 0
                /\ mt.nodes[mt.nodes[p].data[i].child].parent = p

\* the root was replaced by the last insert
NewRootReached == ~mt.panic /\ "new_root" \in mt.ev /\ mt.root \in Internals

RECURSIVE NodeEntries(_, _)
\* the valid entries beneath a node, in the order of the tree
NodeEntries(st, id) ==
    IF st.nodes[id].kind = "leaf"
    THEN SelectSeq([i \in 1..NUM_ENTRIES |-> st.nodes[id].data[i - 1]],
                   LAMBDA e : ~is_invalid(e))
    ELSE Concat([i \in 1..count_children(st.nodes[id]) |->
                    NodeEntries(st, st.nodes[id].data[i - 1].child)])

Entries(st) == NodeEntries(st, st.root)

\* the number of characters of the first k entries
TextBefore(E, k) == SumFn([i \in 1..Len(E) |-> get_text_len(E[i])], 1, k)

\* the entry that the position pos > 0 is in or at the end of
EntryAt(E, pos) ==
    CHOOSE k \in 1..Len(E) : TextBefore(E, k - 1) < pos /\ pos <= TextBefore(E, k)

\* what the claim says of len characters of (client, seq) put at position
\* pos of the entries E
Inserted(E, pos, new) ==
    IF pos = 0 THEN <<new>> \o E
    ELSE With(EntryAt(E, pos), LAMBDA k :
         With(pos - TextBefore(E, k - 1), LAMBDA offset :
            IF offset = E[k].len
            THEN IF E[k].client = new.client /\ E[k].seq + E[k].len = new.seq
                 THEN [E EXCEPT ![k].len = @ + new.len]
                 ELSE SubSeq(E, 1, k) \o <<new>> \o SubSeq(E, k + 1, Len(E))
            ELSE SubSeq(E, 1, k - 1)
                 \o <<[E[k] EXCEPT !.len = offset], new,
                      [E[k] EXCEPT !.seq = @ + offset, !.len = @ - offset]>>
                 \o SubSeq(E, k + 1, Len(E))))

\* one insert call does to the entries what the claim says
InsertStep ==
    \A pos \in 0..mt.count, client \in 1..NumClients, len \in 1..MaxLen :
        mt' = InsertAt(mt, pos, client, len) =>
            /\ ~mt'.panic
            /\ Entries(mt') = Inserted(Entries(mt), pos,
                                       [client |-> client, seq |-> mt.next[client],
                                        len |-> len])

\* C34 (Entry extension and split): MarkerTree::insert at the end of a live
\* entry of the same client whose seq + len equals the new seq extends that
\* entry without adding one; otherwise it adds one entry, or when the cursor
\* is inside an entry splits it into a start part of cursor.offset
\* characters and an end part of the rest, whose lengths sum to the
\* original, with the new entry between them.
EntryExtensionAndSplit == [][InsertStep]_vars

\* the last insert cut an entry of three characters or more in two, in a
\* leaf that it split
EntrySplitWitness ==
    /\ ~mt.panic /\ {"entry_split", "leaf_split"} \subseteq mt.ev
    /\ \E k \in 1..(Len(Entries(mt)) - 2) :
          /\ Entries(mt)[k].client = Entries(mt)[k + 2].client
          /\ Entries(mt)[k].seq + Entries(mt)[k].len = Entries(mt)[k + 2].seq
          /\ Entries(mt)[k].len + Entries(mt)[k + 2].len > 2

\* the last insert made an entry longer
ExtendReached == ~mt.panic /\ "extend" \in mt.ev

(***************************************************************************)
(* Claims about loading in parts                                           *)
(***************************************************************************)
\* the file at hand was written by encode_from at the frontier of the
\* OpLog it has just been merged into, which a file of encode had filled
IncrementalLoad ==
    /\ file # NoFile /\ file.used = 1 /\ peer.n = 2
    /\ file.first > 0 /\ file.first = OpLogLen(peer.before)
    /\ file.start = RemoteFrontier(peer.before, peer.before.frontier)

\* o holds the first n LVs of the source with the content the source has
\* for them
HoldsSourceAt(o, source, n) ==
    /\ OpLogLen(o) = n
    /\ UnitsOf(o.operations) = Below(UnitsOf(source.operations), n)
    /\ AssignedIds(o) = Below(AssignedIds(source), n)
    /\ ParentUnits(o) = Below(ParentUnits(source), n)
    /\ Len(o.ins_content) <= Len(source.ins_content)
    /\ o.ins_content = SubSeq(source.ins_content, 1, Len(o.ins_content))
    /\ Len(o.del_content) <= Len(source.del_content)
    /\ o.del_content = SubSeq(source.del_content, 1, Len(o.del_content))

\* LV by LV the two OpLogs have the same agent assignment, operations and
\* parents, and the same frontier
SameLVs(o, source) ==
    /\ AssignedIds(o) = AssignedIds(source)
    /\ OpUnits(o) = OpUnits(source)
    /\ ParentUnits(o) = ParentUnits(source)
    /\ o.frontier = source.frontier

\* the load in parts succeeds and gives every LV of the source its agent
\* assignment, operation and parents
IncrementalSameLVs ==
    IncrementalLoad => (peer.res = "Ok" /\ SameLVs(peer.oplog, file.of))

\* a source that load_from gives back from its own file is given back by
\* the load in parts
IncrementalAsWhole ==
    (/\ IncrementalLoad /\ file.opts = StoreAll
     /\ HoldsSourceAt(peer.before, file.of, file.first)
     /\ load_from(encode(file.of, StoreAll), FALSE).oplog = file.of)
        => peer.oplog = file.of

\* C31 (Incremental load): if a file was encoded from start frontier f
\* (encode_from) and the destination OpLog's frontier equals f, merge_data
\* succeeds, and loading a full encoding taken at f followed by that
\* incremental encoding gives an OpLog equal to the source OpLog.
IncrementalEqual ==
    (/\ IncrementalLoad /\ file.opts = StoreAll
     /\ HoldsSourceAt(peer.before, file.of, file.first))
        => (peer.res = "Ok" /\ peer.oplog = file.of)

(***************************************************************************)
(* The agent table and the agent assignment of a file, read off its bytes  *)
(***************************************************************************)
RECURSIVE NamesOf(_)
\* the names of an AgentNames chunk, in the order of the file
NamesOf(chunk) ==
    IF chunk = <<>> THEN ReadOk(<<>>, <<>>)
    ELSE Then(next_str(chunk), LAMBDA name, rest :
         Then(NamesOf(rest), LAMBDA names, r : ReadOk(<<name>> \o names, r)))

\* the Patches chunk of a file up to its AgentAssignment chunk
AssignmentOf(patch) ==
    Then(read_chunk(patch, Chunk.InsertedContent), LAMBDA ic, p1 :
    Then(read_chunk(p1, Chunk.DeletedContent), LAMBDA dc, p2 :
        IF (ic.some /\ ~Utf8Valid(ic.body)) \/ (dc.some /\ ~Utf8Valid(dc.body))
        THEN ReadErr("InvalidUTF8")
        ELSE expect_chunk(p2, Chunk.AgentAssignment)))

\* the agent names and the AgentAssignment chunk of a file without a
\* StartBranch chunk: val is [names, assign]
FileParts(data) ==
    IF Len(data) < MagicLen \/ SubSeq(data, 1, Len(MAGIC_BYTES)) # MAGIC_BYTES
    THEN ReadErr("InvalidMagic")
    ELSE Then(next_usize(consume(data, MagicLen)), LAMBDA v, b0 :
         IF v # PROTOCOL_VERSION THEN ReadErr("UnsupportedProtocolVersion")
         ELSE
         Then(expect_chunk(b0, Chunk.FileInfo), LAMBDA fileinfo, b1 :
         Then(read_chunk(fileinfo, Chunk.UserData), LAMBDA userdata, f1 :
         Then(expect_chunk(f1, Chunk.AgentNames), LAMBDA agent_names, f2 :
         Then(NamesOf(agent_names), LAMBDA names, f3 :
         Then(read_chunk(b1, Chunk.StartBranch), LAMBDA sb, b2 :
            IF sb.some THEN ReadErr("StartBranch")
            ELSE Then(expect_chunk(b2, Chunk.Patches), LAMBDA patch, b3 :
                 Then(AssignmentOf(patch), LAMBDA assign, p3 :
                    ReadOk([names |-> names, assign |-> assign, rest |-> p3],
                           <<>>)))))))))

\* a run of the walk below put before the runs that follow it
RunThen(run, w) == [kind |-> w.kind, runs |-> <<run>> \o w.runs]

RECURSIVE RunsWalk(_, _, _)
\* the runs of an AgentAssignment chunk by the rule of the claim: run k of
\* file agent n starts at that agent's cursor plus the jump and moves the
\* cursor to its end. The walk ends at the end of the chunk ("done"), at a
\* run of agent 0 or of an agent past the table ("bad_index"), at a run that
\* would start below 0 ("below") or at a record that is cut off ("cut")
RunsWalk(chunk, cursors, time) ==
    IF chunk = <<>> THEN [kind |-> "done", runs |-> <<>>]
    ELSE With(Then(next_usize(chunk), LAMBDA n0, b1 :
              Then(next_usize(b1), LAMBDA len, b2 :
              Then(IF n0 % 2 = 1 THEN next_zigzag_isize(b2) ELSE ReadOk(0, b2),
                   LAMBDA jump, b3 :
                      ReadOk([n |-> n0 \div 2, len |-> len, jump |-> jump], b3)))),
              LAMBDA r :
        IF r.err # "none" THEN [kind |-> "cut", runs |-> <<>>]
        ELSE IF r.val.n = 0 \/ r.val.n > Len(cursors)
        THEN [kind |-> "bad_index", runs |-> <<>>]
        ELSE IF cursors[r.val.n] + r.val.jump < 0 THEN [kind |-> "below", runs |-> <<>>]
        ELSE RunThen([n |-> r.val.n, time |-> time, len |-> r.val.len,
                      seq |-> cursors[r.val.n] + r.val.jump],
                     RunsWalk(r.buf,
                              [cursors EXCEPT ![r.val.n] = @ + r.val.jump + r.val.len],
                              time + r.val.len)))

\* the walk of the file at hand
FileWalk(parts) ==
    RunsWalk(parts.assign, [i \in 1..Len(parts.names) |-> 0], OpLogLen(peer.before))

\* the (LV, agent, seq) triples of the runs of a walk, for the agents map
\* gives to the file's agents
WalkIds(runs, map) ==
    UNION {{<<runs[k].time + j, map[runs[k].n].id, runs[k].seq + j>> :
               j \in 0..(runs[k].len - 1)} : k \in 1..Len(runs)}

\* where the last run of file agent i ends, 0 when it has no run
LastEnd(runs, i) ==
    IF \A k \in 1..Len(runs) : runs[k].n # i THEN 0
    ELSE With(CHOOSE k \in 1..Len(runs) :
                  /\ runs[k].n = i
                  /\ \A j \in (k + 1)..Len(runs) : runs[j].n # i,
              LAMBDA k : runs[k].seq + runs[k].len)

\* the i-th name of the file belongs to the agent map[i] names: the agent
\* the destination had for it, or one made for it
RemapOk(names, map) ==
    /\ Len(map) = Len(names)
    /\ \A i \in 1..Len(names) :
          /\ map[i].id < Len(peer.oplog.client_data)
          /\ peer.oplog.client_data[map[i].id + 1].name = names[i]
          /\ IF get_agent_id(peer.before, names[i]) >= 0
             THEN map[i].id = get_agent_id(peer.before, names[i])
             ELSE map[i].id >= Len(peer.before.client_data)

\* C27 (Agent remap and seq cursor): the i-th name of the file's agent table
\* maps file index i+1 to the destination's AgentId for that name (created
\* if absent); each AgentAssignment run of a file agent yields the seq range
\* [c + jump, c + jump + len) where c is that agent's cursor (0 at the start
\* of the file, the end of its previous run afterwards) and sets the cursor
\* to the run's end; file index 0 or an index beyond the table is rejected
\* with InvalidLength.
AgentRemap ==
    (JustMerged /\ FileParts(file.data).err = "none") =>
        /\ RemapOk(FileParts(file.data).val.names, peer.map)
        /\ FileWalk(FileParts(file.data).val).kind = "bad_index"
              => peer.res = "InvalidLength"
        /\ FileWalk(FileParts(file.data).val).kind = "done" =>
              /\ peer.lens.assign >= 0
              /\ AssignedIds(peer.oplog) \ AssignedIds(peer.before)
                    = WalkIds(FileWalk(FileParts(file.data).val).runs, peer.map)
              /\ \A i \in 1..Len(peer.map) :
                    peer.map[i].cursor
                       = LastEnd(FileWalk(FileParts(file.data).val).runs, i)

\* a file whose second agent the destination knew as its first has given
\* that agent two runs, the second after a jump
AgentRemapWitness ==
    /\ JustMerged /\ FileParts(file.data).err = "none"
    /\ peer.lens.assign >= 0
    /\ Len(peer.map) = 2 /\ peer.map[2].id = 0
    /\ \E k \in 1..Len(FileWalk(FileParts(file.data).val).runs) :
          /\ FileWalk(FileParts(file.data).val).runs[k].seq > 0
          /\ k > 1
          /\ FileWalk(FileParts(file.data).val).runs[k].n
                # FileWalk(FileParts(file.data).val).runs[k - 1].n

\* a changed byte names agent 0 or an agent past the table
BadIndexReached ==
    /\ JustMerged /\ FileParts(file.data).err = "none"
    /\ FileWalk(FileParts(file.data).val).kind = "bad_index"
    /\ peer.res = "InvalidLength"

\* the OpLogs the files are written from: agent a's two LVs, agent b's one
\* and a third of agent a; or agent b's two and one of agent a
RemapSources ==
    {PushShape(PushShape(PushShape(OpLogNew, AgentA, RootFrontier, InsTwo),
                         AgentB, <<1>>, InsOne), AgentA, <<2>>, DelOne),
     PushShape(PushShape(OpLogNew, AgentB, RootFrontier, InsTwo),
               AgentA, <<1>>, DelOne)}

AgentC == <<99>>

\* OpLogs that hold agents and no operation
WithAgents(names) ==
    IF names = <<>> THEN OpLogNew
    ELSE IF Len(names) = 1 THEN get_or_create_agent_id(OpLogNew, names[1]).oplog
    ELSE get_or_create_agent_id(get_or_create_agent_id(OpLogNew, names[1]).oplog,
                                names[2]).oplog

\* the destinations: one that knows the agents in the other order, one that
\* knows another agent
RemapPeers == {WithAgents(<<AgentB, AgentA>>), WithAgents(<<AgentC>>)}

(***************************************************************************)
(* The parents of a file, read off its bytes                               *)
(***************************************************************************)
\* the TimeDAG chunk of a file
HistoryChunkOf(parts) ==
    Then(expect_chunk(parts.rest, Chunk.PositionalPatches), LAMBDA pp, p4 :
        expect_chunk(p4, Chunk.TimeDAG))

\* the OpLog has given an LV to seq of the agent
KnowsSeq(o, agent, seq) == \E id \in AssignedIds(o) : id[2] = agent /\ id[3] = seq

RECURSIVE ParentsWalk(_, _, _, _)
\* the parents of one entry: "ok" with what follows them, or the first
\* parent the OpLog o cannot follow: an agent past the file's table
\* ("unknown_agent"), an (agent, seq) without an LV ("unknown_seq"), an LV
\* before the first ("unknown_lv"); "cut" when the bytes end early
ParentsWalk(buf, next_time, map, o) ==
    With(next_usize(buf), LAMBDA r :
        IF r.err # "none" THEN [kind |-> "cut", buf |-> <<>>]
        ELSE With(IF r.val % 2 = 0
                  THEN [kind |-> IF r.val \div 4 > next_time THEN "unknown_lv" ELSE "ok",
                        buf |-> r.buf]
                  ELSE IF r.val \div 4 = 0 THEN [kind |-> "ok", buf |-> r.buf]
                  ELSE IF r.val \div 4 > Len(map)
                  THEN [kind |-> "unknown_agent", buf |-> r.buf]
                  ELSE With(next_usize(r.buf), LAMBDA q :
                          IF q.err # "none" THEN [kind |-> "cut", buf |-> <<>>]
                          ELSE IF KnowsSeq(o, map[r.val \div 4].id, q.val)
                          THEN [kind |-> "ok", buf |-> q.buf]
                          ELSE [kind |-> "unknown_seq", buf |-> q.buf]),
                  LAMBDA p :
                IF p.kind = "ok" /\ (r.val \div 2) % 2 = 1
                THEN ParentsWalk(p.buf, next_time, map, o)
                ELSE p))

RECURSIVE HistoryWalk(_, _, _, _)
\* the entries of a TimeDAG chunk up to the first parent that cannot be
\* followed
HistoryWalk(chunk, next_time, map, o) ==
    IF chunk = <<>> THEN "done"
    ELSE With(next_usize(chunk), LAMBDA r :
        IF r.err # "none" THEN "cut"
        ELSE With(ParentsWalk(r.buf, next_time, map, o), LAMBDA p :
                IF p.kind # "ok" THEN p.kind
                ELSE HistoryWalk(p.buf, next_time + r.val, map, o)))

\* what the walk finds in the file at hand, once merge_data has come to its
\* TimeDAG chunk
ParentsFound ==
    IF ~(JustMerged /\ peer.lens.history # -1) THEN "none"
    ELSE IF FileParts(file.data).err # "none" THEN "none"
    ELSE With(HistoryChunkOf(FileParts(file.data).val), LAMBDA h :
            IF h.err # "none" THEN "none"
            ELSE HistoryWalk(h.val, OpLogLen(peer.before), peer.map, peer.oplog))

UnknownKinds == {"unknown_agent", "unknown_seq", "unknown_lv"}

\* files with such parents are refused
UnknownParentsRefused ==
    ParentsFound \in {"unknown_seq", "unknown_lv"} => peer.res # "Ok"

\* a parent (agent, seq) without an LV is refused with InvalidLength
UnknownSeqReached == ParentsFound = "unknown_seq" /\ peer.res = "InvalidLength"

\* a parent of an agent past the table aborts the call
UnknownAgentReached == ParentsFound = "unknown_agent" /\ peer.res = "panic"

\* C30 (Unknown parents): inserting a history entry whose parents refer to
\* an (agent, seq) or LV the OpLog does not know fails with DataMissing.
UnknownParents == ParentsFound \in UnknownKinds => peer.res = "DataMissing"

(***************************************************************************)
(* PositionMapWithDeletes (list/time/positionmap.rs 110-306). The ListCRDT *)
(* is its range tree, the entries in raw order: [order, len, activated],   *)
(* an entry being the items order..order+len in the document as it is now, *)
(* activated when they are not deleted. The map is the sequence of the     *)
(* PositionRuns of the content tree, a cursor is [idx, offset] with idx    *)
(* from 1. The content tree (content-tree crate) and the DoubleDeleteList  *)
(* are not among the files at hand: replace_range, replace_entry,          *)
(* compress_node and the three functions of the list are modelled from how *)
(* positionmap.rs uses them. double_deletes holds a count for each raw     *)
(* position, double_deletes[raw + 1].                                      *)
(* A call returns [res, map, double_deletes, comp, len]: res is "Ok" or    *)
(* names the assertion that aborts the call.                               *)
(***************************************************************************)
RECURSIVE offset_len(_)
\* range_tree.offset_len(): the items of the tree, deleted ones included
offset_len(tree) ==
    IF tree = <<>> THEN 0 ELSE tree[1].len + offset_len(Tail(tree))

RECURSIVE ListContentPos(_, _)
\* range_tree.cursor_at_offset_pos(raw, true).count_content_pos(): the
\* items before raw that are not deleted
ListContentPos(tree, raw) ==
    IF tree = <<>> \/ raw <= 0 THEN 0
    ELSE IF tree[1].len <= raw
         THEN (IF tree[1].activated THEN tree[1].len ELSE 0)
                  + ListContentPos(Tail(tree), raw - tree[1].len)
         ELSE IF tree[1].activated THEN raw ELSE 0

\* the index of the entry that holds order (get_cursor_before)
EntryWith(tree, order) ==
    CHOOSE i \in 1..Len(tree) :
        tree[i].order <= order /\ order < tree[i].order + tree[i].len

\* order_to_raw with the entry found
OrderToRawAt(tree, order, i) ==
    [tag |-> IF tree[i].activated THEN "Ins" ELSE "Del",
     start |-> offset_len(SubSeq(tree, 1, i - 1)) + (order - tree[i].order),
     end |-> offset_len(SubSeq(tree, 1, i - 1)) + tree[i].len]

\* PositionMapWithDeletes::order_to_raw (139-146)
order_to_raw(tree, order) == OrderToRawAt(tree, order, EntryWith(tree, order))

RECURSIVE SumFinalLen(_)
\* the offset length of a map
SumFinalLen(map) ==
    IF map = <<>> THEN 0 ELSE map[1].final_len + SumFinalLen(Tail(map))

RECURSIVE SumContentLen(_)
\* the content length of a map
SumContentLen(map) ==
    IF map = <<>> THEN 0 ELSE map[1].content_len + SumContentLen(Tail(map))

RECURSIVE CursorFrom(_, _, _)
\* the cursor at pos of the entries from i on; at the end of an entry it
\* moves to the start of the next (stick_end = false)
CursorFrom(map, i, pos) ==
    IF i >= Len(map) \/ pos < map[i].final_len THEN [idx |-> i, offset |-> pos]
    ELSE CursorFrom(map, i + 1, pos - map[i].final_len)

\* map.mut_cursor_at_offset_pos(pos, false)
mut_cursor_at_offset_pos(map, pos) == CursorFrom(map, 1, pos)

\* ContentLength::content_len_at_offset for PositionRun (102-108)
content_len_at_offset(run, offset) ==
    IF run.tag = "NotInsertedYet" THEN [res |-> "Ok", n |-> 0]
    ELSE IF run.tag = "Inserted" THEN [res |-> "Ok", n |-> offset]
    ELSE [res |-> "Cannot service call", n |-> 0]

\* cursor.count_content_pos(): the content of the entries before the
\* cursor's and of the cursor's entry up to its offset
count_content_pos(map, cursor) ==
    IF cursor.offset = 0
    THEN [res |-> "Ok", n |-> SumContentLen(SubSeq(map, 1, cursor.idx - 1))]
    ELSE [content_len_at_offset(map[cursor.idx], cursor.offset)
             EXCEPT !.n = @ + SumContentLen(SubSeq(map, 1, cursor.idx - 1))]

RECURSIVE DropLen(_, _)
\* the entries left when the first n items are taken off: whole entries
\* go, the last one is truncated
DropLen(map, n) ==
    IF n = 0 \/ map = <<>> THEN [res |-> "Ok", map |-> map]
    ELSE IF map[1].final_len <= n THEN DropLen(Tail(map), n - map[1].final_len)
    ELSE IF run_truncate(map[1], n).res # "Ok"
         THEN [res |-> "truncate of Upstream", map |-> map]
         ELSE [res |-> "Ok", map |-> <<run_truncate(map[1], n).rest>> \o Tail(map)]

\* the entries before the cursor, its own entry truncated at the offset
KeptBefore(map, cursor) ==
    IF cursor.offset = 0 THEN [res |-> "Ok", map |-> SubSeq(map, 1, cursor.idx - 1)]
    ELSE IF cursor.offset = map[cursor.idx].final_len
         THEN [res |-> "Ok", map |-> SubSeq(map, 1, cursor.idx)]
    ELSE IF run_truncate(map[cursor.idx], cursor.offset).res # "Ok"
         THEN [res |-> "truncate of Upstream", map |-> map]
         ELSE [res |-> "Ok",
               map |-> SubSeq(map, 1, cursor.idx - 1)
                          \o <<run_truncate(map[cursor.idx], cursor.offset).self>>]

\* replace_range with both sides at hand
ReplaceJoin(before, new_entry, after) ==
    IF before.res # "Ok" THEN before
    ELSE IF after.res # "Ok" THEN after
    ELSE [res |-> "Ok", map |-> before.map \o <<new_entry>> \o after.map]

\* cursor.replace_range(new_entry): the new_entry.final_len items from the
\* cursor on are replaced by new_entry
replace_range(map, cursor, new_entry) ==
    ReplaceJoin(KeptBefore(map, cursor), new_entry,
                DropLen(SubSeq(map, cursor.idx, Len(map)),
                        cursor.offset + new_entry.final_len))

\* cursor.replace_entry(items): the cursor's entry is replaced by items
replace_entry(map, cursor, items) ==
    SubSeq(map, 1, cursor.idx - 1) \o items \o SubSeq(map, cursor.idx + 1, Len(map))

RECURSIVE compress_node(_)
\* compress_node: neighbours that can be appended are
compress_node(map) ==
    IF Len(map) < 2 THEN map
    ELSE IF run_can_append(map[1], map[2])
         THEN compress_node(<<run_append(map[1], map[2])>> \o SubSeq(map, 3, Len(map)))
         ELSE <<map[1]>> \o compress_node(Tail(map))

RECURSIVE ZeroRange(_, _, _)
\* DoubleDeleteList::find_zero_range: the positions from base on, max_len
\* at most, whose count is zero
ZeroRange(dd, base, max_len) ==
    IF max_len = 0 \/ base >= Len(dd) \/ dd[base + 1] # 0 THEN 0
    ELSE 1 + ZeroRange(dd, base + 1, max_len - 1)

find_zero_range(dd, base, max_len) == ZeroRange(dd, base, max_len)

RECURSIVE SameRange(_, _, _, _)
\* the positions from base on, max_len at most, whose count is k
SameRange(dd, base, max_len, k) ==
    IF max_len = 0 \/ base >= Len(dd) \/ dd[base + 1] # k THEN 0
    ELSE 1 + SameRange(dd, base + 1, max_len - 1, k)

RECURSIVE ChangeRange(_, _, _, _)
\* the counts of len positions from base on, changed by by
ChangeRange(dd, base, len, by) ==
    IF len <= 0 THEN dd
    ELSE ChangeRange([dd EXCEPT ![base + len] = @ + by], base, len - 1, by)

\* DoubleDeleteList::increment_delete_range
increment_delete_range(dd, base, len) == ChangeRange(dd, base, len, 1)

\* DoubleDeleteList::decrement_delete_range: the run of one count at base
\* is decremented; the list and the length of the run
decrement_delete_range(dd, base, max_len) ==
    [len |-> SameRange(dd, base, max_len, dd[base + 1]),
     dd |-> ChangeRange(dd, base, SameRange(dd, base, max_len, dd[base + 1]), -1)]

RECURSIVE Zeros(_)
\* DoubleDeleteList::new(): no position has a count
Zeros(n) == IF n = 0 THEN <<>> ELSE Append(Zeros(n - 1), 0)

\* PositionMapWithDeletes::new (128-137)
PositionMapNew(tree) ==
    [map |-> <<new_void(offset_len(tree))>>,
     double_deletes |-> Zeros(offset_len(tree))]

\* a call that aborts
PmAbort(self, why) ==
    [res |-> why, map |-> self.map, double_deletes |-> self.double_deletes,
     comp |-> <<>>, len |-> 0]

\* a call that returns
PmOk(map, dd, comp, len) ==
    [res |-> "Ok", map |-> map, double_deletes |-> dd, comp |-> comp, len |-> len]

\* the PositionalComponent returned by advance_by_range (294-299)
Component(content_pos, len, op_type) ==
    <<[pos |-> content_pos, len |-> len, content_known |-> FALSE, tag |-> op_type]>>

\* advance_by_range from the replacement on (276-300), with the content
\* position of the cursor counted
AdvanceReplace(self, final_tag, len, cursor, op_type, content_pos) ==
    IF content_pos.res # "Ok" THEN PmAbort(self, content_pos.res)
    ELSE IF final_tag = op_type
    THEN With(replace_range(self.map, cursor,
                  new_upstream(len, IF op_type = "Del" THEN 0 ELSE len)),
              LAMBDA r : IF r.res # "Ok" THEN PmAbort(self, r.res)
                         ELSE PmOk(compress_node(r.map), self.double_deletes,
                                   Component(content_pos.n, len, op_type), len))
    ELSE IF op_type # "Ins" \/ final_tag # "Del"
    THEN PmAbort(self, "debug_assert_eq op_type final_tag")
    ELSE With(replace_range(self.map, cursor, new_ins(len)),
              LAMBDA r : IF r.res # "Ok" THEN PmAbort(self, r.res)
                         ELSE PmOk(r.map, self.double_deletes,
                                   Component(content_pos.n, len, op_type), len))

\* a delete advanced over Upstream items that leaves their counts alone
AdvanceHandleDDCountKept(self, final_tag, raw_start, len, cursor, op_type) ==
    IF len <= 0 THEN PmAbort(self, "debug_assert len > 0")
    ELSE IF self.map[cursor.idx].tag = "Upstream"
    THEN PmOk(self.map, self.double_deletes, <<>>, len)
    ELSE AdvanceReplace(self, final_tag, len, cursor, op_type,
                        count_content_pos(self.map, cursor))

\* advance_by_range of a delete whose double deletes are handled (263-270)
AdvanceHandleDD(self, final_tag, raw_start, len, cursor, op_type) ==
    IF len <= 0 THEN PmAbort(self, "debug_assert len > 0")
    ELSE IF self.map[cursor.idx].tag = "Upstream"
    THEN PmOk(self.map, increment_delete_range(self.double_deletes, raw_start, len),
              <<>>, len)
    ELSE AdvanceReplace(self, final_tag, len, cursor, op_type,
                        count_content_pos(self.map, cursor))

\* advance_by_range with the cursor made (256-276)
AdvanceCursor(self, final_tag, raw_start, len, cursor, op_type, handle_dd) ==
    IF op_type = "Del" /\ handle_dd
    THEN AdvanceHandleDD(self, final_tag, raw_start,
             Min(len, self.map[cursor.idx].final_len - cursor.offset), cursor, op_type)
    ELSE IF op_type = "Del" /\ self.map[cursor.idx].tag # "Inserted"
    THEN PmAbort(self, "debug_assert_eq tag Inserted")
    ELSE AdvanceReplace(self, final_tag, len, cursor, op_type,
                        count_content_pos(self.map, cursor))

\* advance_by_range with the raw range of the target's start found
AdvanceRaw(self, raw, target_len, op_type, handle_dd) ==
    AdvanceCursor(self, raw.tag, raw.start, Min(raw.end - raw.start, target_len),
                  mut_cursor_at_offset_pos(self.map, raw.start), op_type, handle_dd)

\* PositionMapWithDeletes::advance_by_range (249-302); the target is the
\* orders target_start..target_start + target_len
advance_by_range(self, tree, target_start, target_len, op_type, handle_dd) ==
    AdvanceRaw(self, order_to_raw(tree, target_start), target_len, op_type, handle_dd)

\* an Upstream entry pulled apart with the content of new_entry left in
\* the remainder
RetreatSplitContentKept(self, cursor, len, new_entry, eat_content, content_chomp) ==
    IF cursor.offset = 0
    THEN PmOk(replace_entry(self.map, cursor,
                  IF self.map[cursor.idx].final_len - new_entry.final_len > 0
                  THEN <<new_entry,
                         new_upstream(self.map[cursor.idx].final_len - new_entry.final_len,
                                      self.map[cursor.idx].content_len)>>
                  ELSE <<new_entry>>),
              self.double_deletes, <<>>, len)
    ELSE PmOk(replace_entry(self.map, cursor,
                  IF self.map[cursor.idx].final_len - new_entry.final_len - cursor.offset > 0
                  THEN <<new_upstream(cursor.offset, content_chomp), new_entry,
                         new_upstream(self.map[cursor.idx].final_len - new_entry.final_len
                                          - cursor.offset,
                                      self.map[cursor.idx].content_len - content_chomp)>>
                  ELSE <<new_upstream(cursor.offset, content_chomp), new_entry>>),
              self.double_deletes, <<>>, len)

\* retreat_by_range, the cursor's Upstream entry pulled apart (195-244):
\* new_entry takes eat_content of its content and content_chomp is the
\* content of the part before the cursor
RetreatSplit(self, cursor, len, new_entry, eat_content, content_chomp) ==
    IF cursor.offset = 0
    THEN PmOk(replace_entry(self.map, cursor,
                  IF self.map[cursor.idx].final_len - new_entry.final_len > 0
                  THEN <<new_entry,
                         new_upstream(self.map[cursor.idx].final_len - new_entry.final_len,
                                      self.map[cursor.idx].content_len - eat_content)>>
                  ELSE <<new_entry>>),
              self.double_deletes, <<>>, len)
    ELSE PmOk(replace_entry(self.map, cursor,
                  IF self.map[cursor.idx].final_len - new_entry.final_len - cursor.offset > 0
                  THEN <<new_upstream(cursor.offset, content_chomp), new_entry,
                         new_upstream(self.map[cursor.idx].final_len - new_entry.final_len
                                          - cursor.offset,
                                      self.map[cursor.idx].content_len - eat_content
                                          - content_chomp)>>
                  ELSE <<new_upstream(cursor.offset, content_chomp), new_entry>>),
              self.double_deletes, <<>>, len)

\* retreat_by_range that takes the part before the cursor to hold no
\* content
RetreatReplaceNoChomp(self, tree, final_tag, raw_start, len, cursor, op_type) ==
    IF len < 1 THEN PmAbort(self, "debug_assert len >= 1")
    ELSE IF op_type = "Ins" /\ final_tag = "Del"
    THEN IF self.map[cursor.idx].tag # "Inserted"
         THEN PmAbort(self, "debug_assert_eq tag Inserted")
         ELSE With(replace_range(self.map, cursor, new_void(len)),
                   LAMBDA r : IF r.res # "Ok" THEN PmAbort(self, r.res)
                              ELSE PmOk(r.map, self.double_deletes, <<>>, len))
    ELSE IF self.map[cursor.idx].tag # "Upstream"
    THEN PmAbort(self, "debug_assert_eq tag Upstream")
    ELSE IF op_type # final_tag
    THEN PmAbort(self, "debug_assert_eq op_type final_tag")
    ELSE IF ~(self.map[cursor.idx].final_len - cursor.offset >= len)
    THEN PmAbort(self, "assert entry holds len")
    ELSE RetreatSplit(self, cursor, len,
                      IF op_type = "Ins" THEN new_void(len) ELSE new_ins(len),
                      IF op_type = "Ins" THEN len ELSE 0, 0)

\* retreat_by_range from the change of the map on (175-246)
RetreatReplace(self, tree, final_tag, raw_start, len, cursor, op_type) ==
    IF len < 1 THEN PmAbort(self, "debug_assert len >= 1")
    ELSE IF op_type = "Ins" /\ final_tag = "Del"
    THEN IF self.map[cursor.idx].tag # "Inserted"
         THEN PmAbort(self, "debug_assert_eq tag Inserted")
         ELSE With(replace_range(self.map, cursor, new_void(len)),
                   LAMBDA r : IF r.res # "Ok" THEN PmAbort(self, r.res)
                              ELSE PmOk(r.map, self.double_deletes, <<>>, len))
    ELSE IF self.map[cursor.idx].tag # "Upstream"
    THEN PmAbort(self, "debug_assert_eq tag Upstream")
    ELSE IF op_type # final_tag
    THEN PmAbort(self, "debug_assert_eq op_type final_tag")
    ELSE IF ~(self.map[cursor.idx].final_len - cursor.offset >= len)
    THEN PmAbort(self, "assert entry holds len")
    ELSE RetreatSplit(self, cursor, len,
                      IF op_type = "Ins" THEN new_void(len) ELSE new_ins(len),
                      IF op_type = "Ins" THEN len ELSE 0,
                      ListContentPos(tree, raw_start)
                          - ListContentPos(tree, raw_start - cursor.offset))

\* retreat_by_range of a delete (157-173): a double delete is taken back
\* first
RetreatDelete(self, tree, final_tag, raw_start, len, cursor, allowed_len) ==
    IF len <= 0 THEN PmAbort(self, "debug_assert len > 0")
    ELSE IF allowed_len = 0
    THEN With(decrement_delete_range(self.double_deletes, raw_start, len),
              LAMBDA d : IF d.len <= 0 THEN PmAbort(self, "debug_assert len_dd_here > 0")
                         ELSE PmOk(self.map, d.dd, <<>>, d.len))
    ELSE RetreatReplace(self, tree, final_tag, raw_start, allowed_len, cursor, "Del")

\* retreat_by_range with the cursor made (156-175)
RetreatCursor(self, tree, final_tag, raw_start, len, cursor, op_type) ==
    IF op_type = "Del"
    THEN RetreatDelete(self, tree, final_tag, raw_start,
             Min(len, self.map[cursor.idx].final_len - cursor.offset), cursor,
             find_zero_range(self.double_deletes, raw_start,
                 Min(len, self.map[cursor.idx].final_len - cursor.offset)))
    ELSE RetreatReplace(self, tree, final_tag, raw_start, len, cursor, op_type)

\* retreat_by_range with the raw range of the target's start found
RetreatRaw(self, tree, raw, target_len, op_type) ==
    RetreatCursor(self, tree, raw.tag, raw.start, Min(raw.end - raw.start, target_len),
                  mut_cursor_at_offset_pos(self.map, raw.start), op_type)

\* PositionMapWithDeletes::retreat_by_range (148-247)
retreat_by_range(self, tree, target_start, target_len, op_type) ==
    RetreatRaw(self, tree, order_to_raw(tree, target_start), target_len, op_type)

(***************************************************************************)
(* The position map's driver: a walk over the versions of a document, as   *)
(* the time DAG's walk makes it. The operations of the document are the    *)
(* insert of each item and up to MaxDeletes deletes of each item that is   *)
(* deleted in the end; a call advances over operations that are not in the *)
(* version and retreats over operations that are. fcall is the last call   *)
(* with the document's range tree, fret what it returned with the map,     *)
(* state (for each raw position -1 when the item is not inserted, else the *)
(* number of its deletes in the version) and before, the map and the list  *)
(* before the call.                                                        *)
(***************************************************************************)
\* the range tree has up to MaxTreeEntries entries of up to MaxEntryLen
\* items, MaxItems items at most
MaxTreeEntries == 3
MaxEntryLen == 2
MaxItems == 4

\* an item is the target of up to MaxDeletes delete operations
MaxDeletes == 2

RECURSIVE Shapes(_)
\* the lengths and states of n entries
Shapes(n) ==
    IF n = 0 THEN {<<>>}
    ELSE {Append(s, [len |-> l, activated |-> a]) :
              s \in Shapes(n - 1), l \in 1..MaxEntryLen, a \in BOOLEAN}

RECURSIVE Ordered(_, _, _)
\* the entries of a shape with their orders: in the order of the document
\* or against it
Ordered(shape, i, fwd) ==
    IF i > Len(shape) THEN <<>>
    ELSE <<[order |-> IF fwd THEN offset_len(SubSeq(shape, 1, i - 1))
                      ELSE offset_len(SubSeq(shape, i + 1, Len(shape))),
            len |-> shape[i].len, activated |-> shape[i].activated]>>
             \o Ordered(shape, i + 1, fwd)

\* the range trees of the documents walked
Trees ==
    {Ordered(s, 1, fwd) :
         s \in {t \in UNION {Shapes(n) : n \in 1..MaxTreeEntries} :
                    offset_len(t) <= MaxItems},
         fwd \in BOOLEAN}

RECURSIVE Repeat(_, _)
\* n times v
Repeat(v, n) == IF n = 0 THEN <<>> ELSE Append(Repeat(v, n - 1), v)

\* the raw position of the item of an order
RawOf(tree, order) == order_to_raw(tree, order).start

\* the items of the orders start..start + len are all in one of the states
AllIn(tree, state, start, len, states) ==
    /\ start + len <= offset_len(tree)
    /\ \A o \in start..(start + len - 1) : state[RawOf(tree, o) + 1] \in states

\* every item of the orders start..start + len is deleted in the end
AllDeleted(tree, start, len) ==
    \A o \in start..(start + len - 1) : order_to_raw(tree, o).tag = "Del"

\* the state after len items from raw on have changed by by
StateAfter(state, raw, len, by) == ChangeRange(state, raw, len, by)

\* the map is made for a document
PmInit(tree) ==
    /\ fcall = [fn |-> "new", tree |-> tree, start |-> 0, len |-> 0,
                op_type |-> "Ins", handle_dd |-> FALSE]
    /\ fret = PmOk(PositionMapNew(tree).map, PositionMapNew(tree).double_deletes, <<>>, 0)
                  @@ [state |-> Repeat(-1, offset_len(tree)),
                      before |-> PositionMapNew(tree),
                      undo |-> FALSE, origin |-> <<>>]

\* what a call leaves: its result, the state of the items it handled
\* changed by by, and the map it was called on. undo tells a retreat over
\* the range that the advance just before it handled, with its tag; origin
\* is then the map that advance was called on.
PmLeaves(r, raw_start, by, undo) ==
    r @@ [state |-> IF r.res = "Ok" THEN StateAfter(fret.state, raw_start, r.len, by)
                    ELSE fret.state,
          before |-> [map |-> fret.map, double_deletes |-> fret.double_deletes],
          undo |-> undo,
          origin |-> IF undo THEN fret.before.map ELSE <<>>]

\* the last call was an advance that handled the orders start..start + len
\* with the tag op_type
JustAdvanced(start, len, op_type) ==
    /\ fcall.fn = "advance"
    /\ fcall.op_type = op_type
    /\ fcall.start = start
    /\ fret.len = len

\* advance_by_range over inserts that are not in the version
PmAdvanceIns ==
    /\ fret.res = "Ok"
    /\ \E start \in 0..(MaxItems - 1), len \in 1..MaxItems :
          /\ AllIn(fcall.tree, fret.state, start, len, {-1})
          /\ fcall' = [fcall EXCEPT !.fn = "advance", !.start = start, !.len = len,
                                    !.op_type = "Ins", !.handle_dd = FALSE]
          /\ fret' = PmLeaves(advance_by_range(fret, fcall.tree, start, len, "Ins", FALSE),
                              RawOf(fcall.tree, start), 1, FALSE)
    /\ UNCHANGED <<mt_vars, diff_vars, codec_vars, crdt_vars, branch_vars>>

\* advance_by_range over a delete that is not in the version; without
\* handle_dd no item of the target is deleted in the version
PmAdvanceDel ==
    /\ fret.res = "Ok"
    /\ \E start \in 0..(MaxItems - 1), len \in 1..MaxItems, handle_dd \in BOOLEAN :
          /\ AllIn(fcall.tree, fret.state, start, len,
                   IF handle_dd THEN 0..(MaxDeletes - 1) ELSE {0})
          /\ AllDeleted(fcall.tree, start, len)
          /\ fcall' = [fcall EXCEPT !.fn = "advance", !.start = start, !.len = len,
                                    !.op_type = "Del", !.handle_dd = handle_dd]
          /\ fret' = PmLeaves(advance_by_range(fret, fcall.tree, start, len, "Del", handle_dd),
                              RawOf(fcall.tree, start), 1, FALSE)
    /\ UNCHANGED <<mt_vars, diff_vars, codec_vars, crdt_vars, branch_vars>>

\* retreat_by_range over inserts of the version whose items no delete of
\* the version deletes
PmRetreatIns ==
    /\ fret.res = "Ok"
    /\ \E start \in 0..(MaxItems - 1), len \in 1..MaxItems :
          /\ AllIn(fcall.tree, fret.state, start, len, {0})
          /\ fcall' = [fcall EXCEPT !.fn = "retreat", !.start = start, !.len = len,
                                    !.op_type = "Ins", !.handle_dd = FALSE]
          /\ fret' = PmLeaves(retreat_by_range(fret, fcall.tree, start, len, "Ins"),
                              RawOf(fcall.tree, start), -1,
                              JustAdvanced(start, len, "Ins"))
    /\ UNCHANGED <<mt_vars, diff_vars, codec_vars, crdt_vars, branch_vars>>

\* retreat_by_range over a delete of the version
PmRetreatDel ==
    /\ fret.res = "Ok"
    /\ \E start \in 0..(MaxItems - 1), len \in 1..MaxItems :
          /\ AllIn(fcall.tree, fret.state, start, len, 1..MaxDeletes)
          /\ fcall' = [fcall EXCEPT !.fn = "retreat", !.start = start, !.len = len,
                                    !.op_type = "Del", !.handle_dd = FALSE]
          /\ fret' = PmLeaves(retreat_by_range(fret, fcall.tree, start, len, "Del"),
                              RawOf(fcall.tree, start), -1,
                              JustAdvanced(start, len, "Del"))
    /\ UNCHANGED <<mt_vars, diff_vars, codec_vars, crdt_vars, branch_vars>>

(***************************************************************************)
(* Claims about the position map                                           *)
(***************************************************************************)
\* the tag of the run that holds the raw position
TagAt(map, raw) == map[mut_cursor_at_offset_pos(map, raw).idx].tag

\* the raw position the last call started at
CallRaw == RawOf(fcall.tree, fcall.start)

\* the raw positions the last call handled
Handled == CallRaw..(CallRaw + fret.len - 1)

\* the counts of the list are those before the call, those of the handled
\* positions changed by by
CountsChanged(by) ==
    /\ Len(fret.double_deletes) = Len(fret.before.double_deletes)
    /\ \A r \in 0..(Len(fret.double_deletes) - 1) :
          fret.double_deletes[r + 1] =
              fret.before.double_deletes[r + 1] + (IF r \in Handled THEN by ELSE 0)

\* a delete was advanced, double deletes handled, over items that were in
\* the Upstream state
AdvancedOverUpstream ==
    /\ fcall.fn = "advance"
    /\ fcall.op_type = "Del"
    /\ fcall.handle_dd
    /\ TagAt(fret.before.map, CallRaw) = "Upstream"

\* a delete was retreated over items that had a double-delete count
RetreatedOverCount ==
    /\ fcall.fn = "retreat"
    /\ fcall.op_type = "Del"
    /\ fret.before.double_deletes[CallRaw + 1] # 0

DoubleDeleteReached == AdvancedOverUpstream /\ fret.comp = <<>> /\ fret.len >= 1

\* the retreat of the last delete of an item has changed the map
LastDeleteRetreated ==
    /\ fcall.fn = "retreat"
    /\ fcall.op_type = "Del"
    /\ fret.map # fret.before.map
    /\ \E r \in 0..(Len(fret.state) - 1) : fret.state[r + 1] >= 1

\* C36 (Position map shape): across any sequence of advance_by_range and
\* retreat_by_range calls, the sum of final_len over all runs of the map
\* stays equal to the range tree's offset length the map was created with,
\* and every run has content_len = 0 when NotInsertedYet, content_len =
\* final_len when Inserted and content_len <= final_len when Upstream.
PositionMapShape ==
    /\ SumFinalLen(fret.map) = offset_len(fcall.tree)
    /\ \A i \in 1..Len(fret.map) :
          /\ fret.map[i].tag = "NotInsertedYet" => fret.map[i].content_len = 0
          /\ fret.map[i].tag = "Inserted" =>
                fret.map[i].content_len = fret.map[i].final_len
          /\ fret.map[i].tag = "Upstream" =>
                /\ 0 <= fret.map[i].content_len
                /\ fret.map[i].content_len <= fret.map[i].final_len

\* after a retreat the map holds a run of each tag, the Upstream run with
\* a part of its items deleted
PositionMapShapeWitness ==
    /\ fcall.fn = "retreat"
    /\ \A tag \in {"NotInsertedYet", "Inserted", "Upstream"} :
          \E i \in 1..Len(fret.map) : fret.map[i].tag = tag
    /\ \E i \in 1..Len(fret.map) :
          /\ fret.map[i].tag = "Upstream"
          /\ 0 < fret.map[i].content_len
          /\ fret.map[i].content_len < fret.map[i].final_len

\* the content of a run before the offset; in an Upstream run the items are
\* as they are in the document
ContentInRun(tree, run, run_start, offset) ==
    IF run.tag = "NotInsertedYet" THEN 0
    ELSE IF run.tag = "Inserted" THEN offset
    ELSE ListContentPos(tree, run_start + offset) - ListContentPos(tree, run_start)

\* the content of a map before a raw position, the cursor at hand
MapContentBeforeAt(tree, map, raw, cursor) ==
    SumContentLen(SubSeq(map, 1, cursor.idx - 1))
        + ContentInRun(tree, map[cursor.idx], raw - cursor.offset, cursor.offset)

\* the content of a map before a raw position
MapContentBefore(tree, map, raw) ==
    MapContentBeforeAt(tree, map, raw, mut_cursor_at_offset_pos(map, raw))

\* C37 (Advance/retreat progress and inverse): each advance_by_range or
\* retreat_by_range call handles a length between 1 and the target range's
\* length, and advance_by_range(target, tag) immediately followed by
\* retreat_by_range over the same range and tag returns the map to a state
\* with the same content length before every raw position as before the
\* advance.
AdvanceRetreatInverse ==
    /\ fcall.fn \in {"advance", "retreat"} =>
          /\ fret.res = "Ok"
          /\ 1 <= fret.len
          /\ fret.len <= fcall.len
    /\ fret.undo =>
          \A raw \in 0..offset_len(fcall.tree) :
              MapContentBefore(fcall.tree, fret.map, raw)
                  = MapContentBefore(fcall.tree, fret.origin, raw)

\* an advance that changed the map has been taken back by a retreat that
\* handled a part of a longer Upstream run
AdvanceRetreatWitness ==
    /\ fret.undo
    /\ fret.res = "Ok"
    /\ fret.map # fret.before.map
    /\ fret.before.map # fret.origin
    /\ fret.len >= 2
    /\ \E i \in 1..Len(fret.before.map) :
          fret.before.map[i].tag = "Upstream" /\ fret.before.map[i].final_len > fret.len

\* a call has handled less than its target
PartHandled == fcall.fn \in {"advance", "retreat"} /\ fret.res = "Ok" /\ fret.len < fcall.len

(***************************************************************************)
(* Operations since a version (list/op_iter.rs 94-153)                     *)
(***************************************************************************)
\* OpIterRanges::new that starts with the first span of the list, the
\* highest
OpIterRangesFromFirst(o, r) ==
    IF r = <<>>
    THEN [ranges |-> <<>>,
          current |-> OpMetricsIter(o.operations, [start |-> 0, end |-> 0])]
    ELSE [ranges |-> Tail(r), current |-> OpMetricsIter(o.operations, r[1])]

\* OpIterRanges::new (102-108): the last span of the list, the lowest, is
\* taken first
OpIterRangesNew(o, r) ==
    IF r = <<>>
    THEN [ranges |-> <<>>,
          current |-> OpMetricsIter(o.operations, [start |-> 0, end |-> 0])]
    ELSE [ranges |-> SubSeq(r, 1, Len(r) - 1),
          current |-> OpMetricsIter(o.operations, r[Len(r)])]

\* OpIterRanges::next with the next span popped and the iterator primed
RangesNextPrimed(self, it) ==
    IF it.res = "panic" THEN [res |-> "panic", some |-> FALSE, self |-> self]
    ELSE With(next(it), LAMBDA n :
            IF n.some
            THEN [res |-> "Ok", some |-> TRUE, item |-> n.item,
                  self |-> [ranges |-> SubSeq(self.ranges, 1, Len(self.ranges) - 1),
                            current |-> n.it]]
            ELSE [res |-> "Ok", some |-> FALSE,
                  self |-> [ranges |-> SubSeq(self.ranges, 1, Len(self.ranges) - 1),
                            current |-> n.it]])

\* <OpIterRanges as Iterator>::next (115-128)
ranges_next(self) ==
    IF self.current.res = "panic" THEN [res |-> "panic", some |-> FALSE, self |-> self]
    ELSE With(next(self.current), LAMBDA n :
            IF n.some
            THEN [res |-> "Ok", some |-> TRUE, item |-> n.item,
                  self |-> [self EXCEPT !.current = n.it]]
            ELSE IF self.ranges # <<>>
            THEN IF self.ranges[Len(self.ranges)].start >= self.ranges[Len(self.ranges)].end
                 THEN [res |-> "panic", some |-> FALSE, self |-> self]
                 ELSE RangesNextPrimed(self, prime(n.it, self.ranges[Len(self.ranges)]))
            ELSE [res |-> "Ok", some |-> FALSE, self |-> self])

RECURSIVE DrainRanges(_)
\* what the iterator yields until it ends
DrainRanges(self) ==
    With(ranges_next(self), LAMBDA n :
        IF n.res = "panic" THEN [res |-> "panic", items |-> <<>>]
        ELSE IF ~n.some THEN [res |-> "Ok", items |-> <<>>]
        ELSE With(DrainRanges(n.self), LAMBDA rest :
                IF rest.res = "panic" THEN rest
                ELSE [res |-> "Ok", items |-> <<n.item>> \o rest.items]))

\* the LVs of a frontier are LVs of the log
KnownFrontier(o, frontier) ==
    \A i \in 1..Len(frontier) : frontier[i] = ROOT_TIME \/ frontier[i] < OpLogLen(o)

\* OpLog::iter_range_since (147-153), run to its end; each item with its
\* LV. The history's lookup of an LV that the log does not hold aborts the
\* diff.
iter_range_since(o, frontier) ==
    IF ~KnownFrontier(o, frontier) THEN [res |-> "panic", items |-> <<>>]
    ELSE With(diff(o.history, frontier, o.frontier), LAMBDA d :
            IF d.only_a # <<>> THEN [res |-> "panic", items |-> <<>>]
            ELSE DrainRanges(OpIterRangesNew(o, d.only_b)))

\* the frontiers asked for: those of the log, and those with an LV past it
SinceFrontiers(o) ==
    Frontiers(o) \cup {<<OpLogLen(o)>>}
        \cup {<<t, OpLogLen(o) + 1>> : t \in 0..(OpLogLen(o) - 1)}

\* frontier f is an ancestor of the log's frontier
IsAncestor(o, f) ==
    /\ KnownFrontier(o, f)
    /\ Ancestors(o.history, f) \subseteq Ancestors(o.history, o.frontier)

\* the items are in ascending order of their LVs and share none
Ascending(items) ==
    \A i \in 1..(Len(items) - 1) :
        items[i].time + OpLenOf(items[i]) <= items[i + 1].time

\* what the claim asks of the items yielded for frontier f
SinceYields(o, f, out) ==
    IF IsAncestor(o, f)
    THEN /\ out.res = "Ok"
         /\ \A i \in 1..Len(out.items) : OpLenOf(out.items[i]) >= 1
         /\ Ascending(out.items)
         /\ {u[1] : u \in UnitsOf(out.items)}
                = Ancestors(o.history, o.frontier) \ Ancestors(o.history, f)
         /\ UnitsOf(out.items) \subseteq UnitsOf(o.operations)
    ELSE out.res = "panic" /\ out.items = <<>>

UnknownSinceReached ==
    /\ OpLogLen(dlog) >= 2
    /\ \E f \in SinceFrontiers(dlog) :
          ~IsAncestor(dlog, f) /\ iter_range_since(dlog, f).res = "panic"

(***************************************************************************)
(* WALChunks (src/src/storage/wal_encoding.rs). The NewOpLog is held as    *)
(* the OpLog of PART 2, of which flush reads client_data and the LV ->     *)
(* (agent, seq) list. WriteAheadLog, AgentMapping, AAWriteCursor and       *)
(* PackWriter are not among the files at hand: the log is the sequence of  *)
(* the chunks written, and a chunk is [from, to, names, spans]: the LVs    *)
(* asked of iter_range_packed, the names of the agents in the order of the *)
(* mapping, and the runs [agent, seq, len] pushed, agent counting in that  *)
(* order from 0.                                                           *)
(***************************************************************************)
\* WALChunks::open (16-24) on a path that holds no log
WALChunksOpen == [wal |-> <<>>, next_version |-> 0]

\* the part of a run inside the LVs from..to
ClipRun(run, from, to) ==
    [time |-> Max(run.time, from),
     agent |-> run.agent,
     seq |-> run.seq + (Max(run.time, from) - run.time),
     len |-> Min(run.time + run.len, to) - Max(run.time, from)]

RECURSIVE iter_range_packed(_, _, _)
\* RleVec::iter_range_packed: the runs of the list that hold LVs of
\* from..to, cut to them
iter_range_packed(list, from, to) ==
    IF list = <<>> THEN <<>>
    ELSE IF list[1].time + list[1].len <= from \/ list[1].time >= to
    THEN iter_range_packed(Tail(list), from, to)
    ELSE <<ClipRun(list[1], from, to)>> \o iter_range_packed(Tail(list), from, to)

\* the place of agent in the mapping, -1 when it has none
MappedAs(map, agent) ==
    IF \E i \in 1..Len(map) : map[i] = agent
    THEN (CHOOSE i \in 1..Len(map) : map[i] = agent) - 1
    ELSE -1

RECURSIVE WriteSpans(_, _, _, _)
\* the loop of flush (47-55): each run is pushed with its agent mapped, an
\* agent being added to the mapping when it is met first
WriteSpans(chunk, map, runs, i) ==
    IF i > Len(runs) THEN [chunk EXCEPT !.map = map]
    ELSE IF MappedAs(map, runs[i].agent) >= 0
    THEN WriteSpans([chunk EXCEPT !.spans =
                        Append(@, [agent |-> MappedAs(map, runs[i].agent),
                                   seq |-> runs[i].seq, len |-> runs[i].len])],
                    map, runs, i + 1)
    ELSE WriteSpans([chunk EXCEPT !.spans =
                        Append(@, [agent |-> Len(map),
                                   seq |-> runs[i].seq, len |-> runs[i].len])],
                    Append(map, runs[i].agent), runs, i + 1)

RECURSIVE MappedNames(_, _, _)
\* AgentMapping::into_output: the names of the agents of the mapping
MappedNames(client_data, map, i) ==
    IF i > Len(map) THEN <<>>
    ELSE <<client_data[map[i] + 1].name>> \o MappedNames(client_data, map, i + 1)

\* the closure handed to write_chunk (41-62)
WalWriteChunk(oplog, from, to) ==
    With(WriteSpans([from |-> from, to |-> to, map |-> <<>>, spans |-> <<>>], <<>>,
                    iter_range_packed(oplog.client_with_lv, from, to), 1),
         LAMBDA c : [from |-> c.from, to |-> c.to,
                     names |-> MappedNames(oplog.client_data, c.map, 1),
                     spans |-> c.spans])

\* WALChunks::flush (31-65); wrote tells whether write_chunk returned Ok
flush(self, oplog, wrote) ==
    IF OpLogLen(oplog) = self.next_version THEN [res |-> "Ok", self |-> self]
    ELSE IF ~wrote THEN [res |-> "Err", self |-> self]
    ELSE [res |-> "Ok",
          self |-> [self EXCEPT !.wal =
                       Append(@, WalWriteChunk(oplog, self.next_version, OpLogLen(oplog)))]]

\* the log takes up to MaxWalTime LVs in runs of up to MaxWalRun, and flush
\* is called up to MaxFlushes times
MaxWalTime == 3
MaxWalRun == 2
MaxFlushes == 3

\* the log is opened for an OpLog without operations
WalInit ==
    /\ fcall = [fn |-> "open", oplog |-> OpLogNew, flushes |-> 0, after_flush |-> FALSE]
    /\ fret = [res |-> "Ok", self |-> WALChunksOpen, before |-> WALChunksOpen]

\* an agent's operations are added to the OpLog (set_at_path, as in
\* simple_encode_test)
WalPush ==
    /\ \E name \in Agents, len \in 1..MaxWalRun :
          /\ OpLogLen(fcall.oplog) + len <= MaxWalTime
          /\ fcall' = [fcall EXCEPT
                !.fn = "push",
                !.after_flush = FALSE,
                !.oplog = With(get_or_create_agent_id(fcall.oplog, name), LAMBDA r :
                             assign_next_time_to_crdt_span(r.oplog, OpLogLen(r.oplog),
                                 [agent |-> r.id, seq |-> NextSeqOf(r.oplog, name),
                                  len |-> len]))]
    /\ fret' = [fret EXCEPT !.before = fret.self]
    /\ UNCHANGED <<mt_vars, diff_vars, codec_vars, crdt_vars, branch_vars>>

\* flush is called; after_flush tells a call that follows a flush that
\* returned Ok, with no operation in between
WalFlush ==
    /\ fcall.flushes < MaxFlushes
    /\ \E wrote \in BOOLEAN :
          fret' = flush(fret.self, fcall.oplog, wrote) @@ [before |-> fret.self]
    /\ fcall' = [fcall EXCEPT !.fn = "flush", !.flushes = @ + 1,
                              !.after_flush = (fcall.fn = "flush" /\ fret.res = "Ok")]
    /\ UNCHANGED <<mt_vars, diff_vars, codec_vars, crdt_vars, branch_vars>>

\* the agent and seq of an LV of the OpLog
AssignmentAt(o, lv) ==
    With(CHOOSE i \in 1..Len(o.client_with_lv) :
             /\ o.client_with_lv[i].time <= lv
             /\ lv < o.client_with_lv[i].time + o.client_with_lv[i].len,
         LAMBDA i : <<o.client_data[o.client_with_lv[i].agent + 1].name,
                      o.client_with_lv[i].seq + (lv - o.client_with_lv[i].time)>>)

RECURSIVE ChunkAssignments(_, _)
\* the agent and seq of each LV of a chunk, read off its names and spans
ChunkAssignments(chunk, i) ==
    IF i > Len(chunk.spans) THEN <<>>
    ELSE [k \in 1..chunk.spans[i].len |->
             <<chunk.names[chunk.spans[i].agent + 1], chunk.spans[i].seq + k - 1>>]
             \o ChunkAssignments(chunk, i + 1)

\* a chunk holds the assignments of its LVs, which the OpLog has, and no
\* other
ChunkHolds(o, chunk) ==
    /\ chunk.from < chunk.to
    /\ chunk.to <= OpLogLen(o)
    /\ Len(ChunkAssignments(chunk, 1)) = chunk.to - chunk.from
    /\ \A k \in 1..(chunk.to - chunk.from) :
          ChunkAssignments(chunk, 1)[k] = AssignmentAt(o, chunk.from + k - 1)

\* the chunks of the log that hold the LV
ChunksWith(wal, lv) == {i \in 1..Len(wal) : wal[i].from <= lv /\ lv < wal[i].to}

\* a flush writes one chunk with the assignments of the LVs from
\* next_version on, and none when there is no such LV
FlushWrites ==
    /\ \A i \in 1..Len(fret.self.wal) : ChunkHolds(fcall.oplog, fret.self.wal[i])
    /\ fcall.fn = "flush" =>
          IF OpLogLen(fcall.oplog) = fret.before.next_version \/ fret.res # "Ok"
          THEN fret.self.wal = fret.before.wal
          ELSE /\ Len(fret.self.wal) = Len(fret.before.wal) + 1
               /\ fret.self.wal[Len(fret.self.wal)].from = fret.before.next_version
               /\ fret.self.wal[Len(fret.self.wal)].to = OpLogLen(fcall.oplog)

\* a flush has written the runs of two agents, one of them cut by no other
FlushWritesReached ==
    /\ fcall.fn = "flush"
    /\ fret.res = "Ok"
    /\ Len(fret.self.wal) = 1
    /\ Len(fret.self.wal[1].names) = 2
    /\ Len(fret.self.wal[1].spans) = 3

\* C39 (WAL flush): flush writes a chunk holding only the agent assignments
\* of LVs in [next_version, oplog.len()) and writes nothing when oplog.len()
\* equals next_version; after a successful flush a second flush with no new
\* operations writes nothing, so each LV's assignment is written at most
\* once.
WALFlush ==
    /\ FlushWrites
    /\ (fcall.fn = "flush" /\ fcall.after_flush) => fret.self.wal = fret.before.wal
    /\ \A lv \in 0..(OpLogLen(fcall.oplog) - 1) :
          Cardinality(ChunksWith(fret.self.wal, lv)) <= 1

(***************************************************************************)
(* git-reader (crates/git-reader/src/main.rs): the two passes over the     *)
(* commits of a repository. A repository is the sequence of its commits'   *)
(* parent lists, the commit c at repo[c], and the branch head is one of    *)
(* the commits. A HashMap from Oid is a sequence over the commits of       *)
(* [has, v], has telling whether the commit is a key. A ListBranch is held *)
(* as the set of the commits whose changes it has. The program's state is  *)
(* [scan_frontier, fwd_frontier, commit_children, commit_parents,          *)
(* branch_at_oid, res] with log, the commits in the order the forward pass *)
(* processed them, took, what the takes of the last iteration found:       *)
(* [p, present, left] with left the children still to take p's branch,     *)
(* scanned, which tells the forward pass from the scan pass, and branch,   *)
(* the branch at hand inside an iteration.                                 *)
(***************************************************************************)
\* a HashMap's missing key
NoEntry == [has |-> FALSE, v |-> <<>>]

\* a HashMap's value
Entry(v) == [has |-> TRUE, v |-> v]

\* main up to the scan loop (51-66)
GitStart(repo, head) ==
    [scan_frontier |-> <<head>>,
     fwd_frontier |-> <<>>,
     commit_children |-> [Repeat(NoEntry, Len(repo)) EXCEPT ![head] = Entry(<<>>)],
     commit_parents |-> Repeat(NoEntry, Len(repo)),
     branch_at_oid |-> Repeat(NoEntry, Len(repo)),
     res |-> "Ok", log |-> <<>>, took |-> <<>>, scanned |-> FALSE, branch |-> {}]

RECURSIVE ScanParents(_, _, _, _)
\* the loop over the parents of a scanned commit (79-86)
ScanParents(st, c_id, parents, i) ==
    IF i > Len(parents) THEN st
    ELSE ScanParents(
            [st EXCEPT !.scan_frontier = Append(@, parents[i]),
                       !.commit_children[parents[i]] =
                           Entry(Append(@.v, c_id))],
            c_id, parents, i + 1)

\* one turn of the scan loop (71-92) with the commit popped
ScanCommit(st, repo, c_id) ==
    IF st.commit_parents[c_id].has THEN st
    ELSE With(ScanParents([st EXCEPT !.commit_parents[c_id] = Entry(repo[c_id])],
                          c_id, repo[c_id], 1),
              LAMBDA s : IF Len(repo[c_id]) = 0
                         THEN [s EXCEPT !.fwd_frontier = Append(@, c_id)]
                         ELSE s)

\* one turn of the scan loop (71-92)
ScanTurn(st, repo) ==
    ScanCommit([st EXCEPT !.scan_frontier = SubSeq(@, 1, Len(@) - 1)], repo,
               st.scan_frontier[Len(st.scan_frontier)])

\* take that removes the branch of the parent whenever it is taken
take_and_remove(st, p_id) ==
    IF ~st.branch_at_oid[p_id].has
    THEN [st EXCEPT !.res = "panic",
                    !.took = Append(@, [p |-> p_id, present |-> FALSE, left |-> 0])]
    ELSE IF st.branch_at_oid[p_id].v.num_children < 1
    THEN [st EXCEPT !.res = "panic",
                    !.took = Append(@, [p |-> p_id, present |-> TRUE, left |-> 0])]
    ELSE [st EXCEPT !.branch = st.branch_at_oid[p_id].v.branch,
                    !.branch_at_oid[p_id] = NoEntry,
                    !.took = Append(@, [p |-> p_id, present |-> TRUE,
                                        left |-> st.branch_at_oid[p_id].v.num_children - 1])]

\* take (104-115): the branch stored for p_id, which leaves the map when
\* its last child takes it; st.branch is the branch returned
take(st, p_id) ==
    IF ~st.branch_at_oid[p_id].has
    THEN [st EXCEPT !.res = "panic",
                    !.took = Append(@, [p |-> p_id, present |-> FALSE, left |-> 0])]
    ELSE IF st.branch_at_oid[p_id].v.num_children < 1
    THEN [st EXCEPT !.res = "panic",
                    !.took = Append(@, [p |-> p_id, present |-> TRUE, left |-> 0])]
    ELSE IF st.branch_at_oid[p_id].v.num_children = 1
    THEN [st EXCEPT !.branch = st.branch_at_oid[p_id].v.branch,
                    !.branch_at_oid[p_id] = NoEntry,
                    !.took = Append(@, [p |-> p_id, present |-> TRUE, left |-> 0])]
    ELSE [st EXCEPT !.branch = st.branch_at_oid[p_id].v.branch,
                    !.branch_at_oid[p_id].v.num_children = @ - 1,
                    !.took = Append(@, [p |-> p_id, present |-> TRUE,
                                        left |-> st.branch_at_oid[p_id].v.num_children - 1])]

RECURSIVE MergeParents(_, _, _, _)
\* the loop over the other parents (166-170): each one's branch is taken
\* and merged into branch
MergeParents(st, branch, parents, i) ==
    IF i > Len(parents) \/ st.res # "Ok" THEN [st EXCEPT !.branch = branch]
    ELSE With(take(st, parents[i]), LAMBDA s :
            IF s.res # "Ok" THEN s
            ELSE MergeParents(s, branch \cup s.branch, parents, i + 1))

\* take_branch (117-174): the branch the commit starts from
take_branch(st, parents) ==
    IF Len(parents) = 0 THEN [st EXCEPT !.branch = {}]
    ELSE With(take(st, parents[1]), LAMBDA s :
            IF s.res # "Ok" THEN s
            ELSE MergeParents(s, s.branch, parents, 2))

RECURSIVE ReleaseChildren(_, _, _)
\* the loop over the children (258-267): a child that is not processed and
\* whose parents all have a stored branch enters fwd_frontier
ReleaseChildren(st, children, i) ==
    IF i > Len(children) \/ st.res # "Ok" THEN st
    ELSE IF st.branch_at_oid[children[i]].has THEN ReleaseChildren(st, children, i + 1)
    ELSE IF ~st.commit_parents[children[i]].has THEN [st EXCEPT !.res = "panic"]
    ELSE IF \A k \in 1..Len(st.commit_parents[children[i]].v) :
                st.branch_at_oid[st.commit_parents[children[i]].v[k]].has
    THEN ReleaseChildren([st EXCEPT !.fwd_frontier = Append(@, children[i])],
                         children, i + 1)
    ELSE ReleaseChildren(st, children, i + 1)

\* the forward loop from the file's changes on (189-268), the commit's
\* branch at hand: the changes of the commit are added to it, it is stored
\* with the number of the commit's children, and the children are released
StoreBranch(st, commit_id) ==
    IF st.res # "Ok" THEN st
    ELSE IF ~st.commit_children[commit_id].has THEN [st EXCEPT !.res = "panic"]
    ELSE ReleaseChildren(
            [st EXCEPT !.branch_at_oid[commit_id] =
                           Entry([branch |-> st.branch \cup {commit_id},
                                  num_children |-> Len(st.commit_children[commit_id].v)]),
                       !.log = Append(@, commit_id)],
            st.commit_children[commit_id].v, 1)

\* one turn of the forward loop (180-268)
FwdTurn(st, repo) ==
    [StoreBranch(
         take_branch([st EXCEPT !.fwd_frontier = SubSeq(@, 1, Len(@) - 1),
                                !.took = <<>>],
                     repo[st.fwd_frontier[Len(st.fwd_frontier)]]),
         st.fwd_frontier[Len(st.fwd_frontier)])
        EXCEPT !.branch = {}]

\* the repository has up to MaxCommits commits with up to MaxCommitParents
\* parents each
MaxCommits == 4
MaxCommitParents == 2

\* the parent lists a commit may have: earlier commits, each once
ParentLists(c) ==
    {<<>>} \cup {<<p>> : p \in 1..(c - 1)}
        \cup {l \in (1..(c - 1)) \X (1..(c - 1)) : l[1] # l[2]}

RECURSIVE Repos(_)
\* the repositories of n commits
Repos(n) ==
    IF n = 0 THEN {<<>>}
    ELSE {Append(r, ps) : r \in Repos(n - 1),
                          ps \in {l \in ParentLists(n) : Len(l) <= MaxCommitParents}}

\* main is started on a repository
GitInit ==
    /\ \E repo \in Repos(MaxCommits), head \in 1..MaxCommits :
          /\ fcall = [fn |-> "main", repo |-> repo, head |-> head]
          /\ fret = GitStart(repo, head)

\* a turn of the scan loop
GitScan ==
    /\ fret.res = "Ok"
    /\ ~fret.scanned
    /\ fret.scan_frontier # <<>>
    /\ fret' = ScanTurn(fret, fcall.repo)
    /\ fcall' = [fcall EXCEPT !.fn = "scan"]
    /\ UNCHANGED <<mt_vars, diff_vars, codec_vars, crdt_vars, branch_vars>>

\* the scan loop ends and scan_frontier is dropped (94)
GitScanned ==
    /\ fret.res = "Ok"
    /\ ~fret.scanned
    /\ fret.scan_frontier = <<>>
    /\ fret' = [fret EXCEPT !.scanned = TRUE]
    /\ fcall' = [fcall EXCEPT !.fn = "scanned"]
    /\ UNCHANGED <<mt_vars, diff_vars, codec_vars, crdt_vars, branch_vars>>

\* a turn of the forward loop
GitForward ==
    /\ fret.res = "Ok"
    /\ fret.scanned
    /\ fret.fwd_frontier # <<>>
    /\ fret' = FwdTurn(fret, fcall.repo)
    /\ fcall' = [fcall EXCEPT !.fn = "forward"]
    /\ UNCHANGED <<mt_vars, diff_vars, codec_vars, crdt_vars, branch_vars>>

(***************************************************************************)
(* Claims about the passes of git-reader                                   *)
(***************************************************************************)
RECURSIVE ReachFrom(_, _, _)
\* the commits reachable from those of todo
ReachFrom(repo, todo, seen) ==
    IF todo = {} THEN seen
    ELSE With(CHOOSE c \in todo : TRUE, LAMBDA c :
            ReachFrom(repo, (todo \cup (SeqToSet(repo[c]) \ seen)) \ {c}, seen \cup {c}))

\* the commits reachable from the branch head
Reachable == ReachFrom(fcall.repo, {fcall.head}, {})

\* the reachable children of a commit
ChildrenOf(p) == {c \in Reachable : p \in SeqToSet(fcall.repo[c])}

\* the place of a commit in the order of processing, 0 when it is not
\* processed
ProcessedAt(c) ==
    IF \E i \in 1..Len(fret.log) : fret.log[i] = c
    THEN CHOOSE i \in 1..Len(fret.log) : fret.log[i] = c
    ELSE 0

\* the forward pass has ended
ForwardDone == fret.scanned /\ fret.fwd_frontier = <<>>

\* what the claim asks of every state of the forward pass
SchedulingSafe ==
    /\ fret.res = "Ok"
    /\ \A i, j \in 1..Len(fret.log) : fret.log[i] = fret.log[j] => i = j
    /\ \A i \in 1..Len(fret.log) :
          /\ fret.log[i] \in Reachable
          /\ \A p \in SeqToSet(fcall.repo[fret.log[i]]) :
                ProcessedAt(p) >= 1 /\ ProcessedAt(p) < i
    /\ \A k \in 1..Len(fret.took) : fret.took[k].present
    /\ \A p \in SeqToSet(fret.log) :
          ChildrenOf(p) # {} =>
              (fret.branch_at_oid[p].has <=> \E c \in ChildrenOf(p) : ProcessedAt(c) = 0)
    /\ \A c \in SeqToSet(fret.fwd_frontier) : ProcessedAt(c) = 0
    /\ ForwardDone => SeqToSet(fret.log) = Reachable

\* every reachable commit has been processed
AllProcessed == ForwardDone /\ SeqToSet(fret.log) = Reachable

\* C40 (Commit scheduling): in the git-reader forward pass every commit
\* reachable from the branch head is popped from fwd_frontier and processed
\* exactly once, and only after every one of its parents has been
\* processed; a parent's stored branch is still present each time one of
\* its children takes it and is removed when its last child takes it.
CommitScheduling == []SchedulingSafe /\ <>AllProcessed

\* the pass has ended on a repository of four reachable commits: a merge
\* of two commits was processed last, and its two takes found the branches
\* of its parents, one of which an earlier child had taken a clone of
CommitSchedulingWitness ==
    /\ AllProcessed
    /\ Cardinality(Reachable) = MaxCommits
    /\ Len(fret.took) = 2
    /\ \A k \in 1..2 : fret.took[k].present /\ fret.took[k].left = 0
                       /\ ~fret.branch_at_oid[fret.took[k].p].has
    /\ \E k \in 1..2 : Cardinality(ChildrenOf(fret.took[k].p)) = 2

\* a commit outside the history of the branch head is left alone
UnreachableLeft == ForwardDone /\ Cardinality(Reachable) < MaxCommits /\ fret.res = "Ok"

(***************************************************************************)
(* Specifications                                                          *)
(***************************************************************************)
MTInit ==
    /\ \E s \in Scripts : mt = Replay(MarkerTreeNew, s, 1)
    /\ mt_n = 0
    /\ mt_last = [len |-> 0, before |-> mt.count]
    /\ dlog = OpLogNew
    /\ dres = DiffNone
    /\ wlog = OpLogNew
    /\ file = NoFile
    /\ peer = NoPeer
    /\ reps = NoReplicas
    /\ net = {}
    /\ rlast = NoApply
    /\ doc = DocNew
    /\ brs = NoBranches
    /\ blast = NoCall
    /\ fcall = NoFn
    /\ fret = NoFn

MTNext == MTInsert

SpecTree == MTInit /\ [][MTNext]_vars

DiffInit ==
    /\ dlog = OpLogNew
    /\ dres = DiffNone
    /\ mt = MarkerTreeNew
    /\ mt_n = 0
    /\ mt_last = [len |-> 0, before |-> 0]
    /\ wlog = OpLogNew
    /\ file = NoFile
    /\ peer = NoPeer
    /\ reps = NoReplicas
    /\ net = {}
    /\ rlast = NoApply
    /\ doc = DocNew
    /\ brs = NoBranches
    /\ blast = NoCall
    /\ fcall = NoFn
    /\ fret = NoFn

DiffNext == DiffPush \/ DiffCall

SpecDiff == DiffInit /\ [][DiffNext]_vars

CodecInit ==
    /\ wlog = OpLogNew
    /\ file = NoFile
    /\ peer = NoPeer
    /\ reps = NoReplicas
    /\ net = {}
    /\ rlast = NoApply
    /\ doc = DocNew
    /\ brs = NoBranches
    /\ blast = NoCall
    /\ fcall = NoFn
    /\ fret = NoFn
    /\ mt = MarkerTreeNew
    /\ mt_n = 0
    /\ mt_last = [len |-> 0, before |-> 0]
    /\ dlog = OpLogNew
    /\ dres = DiffNone

CodecNext == CodecPush \/ CodecEncode \/ CodecEncodeFrom \/ CodecMerge \/ CodecDrop

SpecCodec == CodecInit /\ [][CodecNext]_vars

TamperInit ==
    /\ wlog \in TamperSources
    /\ file = NoFile
    /\ peer = NoPeer
    /\ reps = NoReplicas
    /\ net = {}
    /\ rlast = NoApply
    /\ doc = DocNew
    /\ brs = NoBranches
    /\ blast = NoCall
    /\ fcall = NoFn
    /\ fret = NoFn
    /\ mt = MarkerTreeNew
    /\ mt_n = 0
    /\ mt_last = [len |-> 0, before |-> 0]
    /\ dlog = OpLogNew
    /\ dres = DiffNone

TamperNext ==
    CodecEncode \/ TamperExtra \/ TamperStrip \/ TamperCut \/ TamperSwap \/ TamperFlip
        \/ TamperAssign \/ CodecMerge

SpecTamper == TamperInit /\ [][TamperNext]_vars

CrdtInit ==
    /\ reps = NoReplicas
    /\ net = {}
    /\ rlast = NoApply
    /\ doc = DocNew
    /\ brs = NoBranches
    /\ blast = NoCall
    /\ fcall = NoFn
    /\ fret = NoFn
    /\ mt = MarkerTreeNew
    /\ mt_n = 0
    /\ mt_last = [len |-> 0, before |-> 0]
    /\ dlog = OpLogNew
    /\ dres = DiffNone
    /\ wlog = OpLogNew
    /\ file = NoFile
    /\ peer = NoPeer

CrdtNext == LocalInsert \/ LocalDelete \/ Deliver

SpecCrdt == CrdtInit /\ [][CrdtNext]_vars

BranchInit ==
    /\ doc = DocNew
    /\ brs = NoBranches
    /\ blast = NoCall
    /\ fcall = NoFn
    /\ fret = NoFn
    /\ reps = NoReplicas
    /\ net = {}
    /\ rlast = NoApply
    /\ mt = MarkerTreeNew
    /\ mt_n = 0
    /\ mt_last = [len |-> 0, before |-> 0]
    /\ dlog = OpLogNew
    /\ dres = DiffNone
    /\ wlog = OpLogNew
    /\ file = NoFile
    /\ peer = NoPeer

BranchNext ==
    BranchInsert \/ BranchDelete \/ BranchMerge \/ BranchCheckout \/ BranchClone

SpecBranch == BranchInit /\ [][BranchNext]_vars

\* the variables of the other parts, which a function on its own leaves alone
FnRest ==
    /\ doc = DocNew
    /\ brs = NoBranches
    /\ blast = NoCall
    /\ reps = NoReplicas
    /\ net = {}
    /\ rlast = NoApply
    /\ mt = MarkerTreeNew
    /\ mt_n = 0
    /\ mt_last = [len |-> 0, before |-> 0]
    /\ dlog = OpLogNew
    /\ dres = DiffNone
    /\ wlog = OpLogNew
    /\ file = NoFile
    /\ peer = NoPeer

UnicountInit == FnRest /\ \E s \in StringsOf(MaxChars) : UniInit(s)

UnicountNext == StrPos

SpecUnicount == UnicountInit /\ [][UnicountNext]_vars

RunInitAll == FnRest /\ \E run \in NewRuns : RunInit(run)

RunNext == RunTruncate \/ RunAppend

SpecPositionRun == RunInitAll /\ [][RunNext]_vars

RemapInit ==
    /\ wlog \in RemapSources
    /\ \E o \in RemapPeers : peer = [NoPeer EXCEPT !.oplog = o, !.before = o]
    /\ file = NoFile
    /\ reps = NoReplicas
    /\ net = {}
    /\ rlast = NoApply
    /\ doc = DocNew
    /\ brs = NoBranches
    /\ blast = NoCall
    /\ fcall = NoFn
    /\ fret = NoFn
    /\ mt = MarkerTreeNew
    /\ mt_n = 0
    /\ mt_last = [len |-> 0, before |-> 0]
    /\ dlog = OpLogNew
    /\ dres = DiffNone

RemapNext == CodecEncode \/ TamperAssign \/ TamperNoStart \/ TamperFlip \/ CodecMerge

SpecRemap == RemapInit /\ [][RemapNext]_vars

PatchesInitAll ==
    FnRest /\ \E buf \in PatchBufs, release \in BOOLEAN : PatchesInit(buf, release)

PatchesNext == PatchNextItem

SpecPatches == PatchesInitAll /\ [][PatchesNext]_vars

PmInitAll == FnRest /\ \E tree \in Trees : PmInit(tree)

PmNext == PmAdvanceIns \/ PmAdvanceDel \/ PmRetreatIns \/ PmRetreatDel

SpecPositionMap == PmInitAll /\ [][PmNext]_vars

WalInitAll == FnRest /\ WalInit

WalNext == WalPush \/ WalFlush

SpecWal == WalInitAll /\ [][WalNext]_vars

GitInitAll == FnRest /\ GitInit

GitNext == GitScan \/ GitScanned \/ GitForward

SpecGit == GitInitAll /\ [][GitNext]_vars

\* main runs on until it returns
SpecGitFair == GitInitAll /\ [][GitNext]_vars /\ WF_vars(GitNext)

=========================================================================
